---- MODULE Spec2Model ----
(***************************************************************************)
(* Toddler Storytime: the streaming orchestrators of                       *)
(* app/endpoints/stories.py (generate_streaming_content and                *)
(* generate_and_play_stream), the device-triggered flow of                 *)
(* app/serial/monitor.py and the blocking /generate path of                *)
(* app/endpoints/stories.py with app/core/story_generator.py.              *)
(*                                                                         *)
(* Text is a sequence of one-character strings over the alphabet           *)
(* {"a", ".", " "}: a letter, a sentence terminator and whitespace.        *)
(***************************************************************************)
EXTENDS Integers, Sequences, FiniteSets, TLC

VARIABLES
    \* ---- streaming orchestrators (stories.py) ----
    endpoint,         \* "sse": /generate_streaming, "local": /generate_and_play_local_streaming
    generate_audio,   \* query parameter audio=true (stories.py:556); always TRUE for "local"
    pc,               \* position of the orchestrator generator
    full_text,        \* running transcript
    chunk_buffer,     \* pending text not yet forwarded to synthesis
    text_to_process,  \* text of the synthesis stream opened last
    full_audio_data,  \* accumulated audio chunks (each chunk named by its stream)
    events,           \* events yielded to the consumer, in order
    forwarded,        \* texts handed to generate_audio_streaming, in order
    tts_open,         \* synthesis streams (async generators) started and not yet finished
    cur_stream,       \* number of synthesis streams opened so far; the last one is cur_stream
    n_chunks,         \* audio chunks yielded by the current synthesis stream
    n_emitted,        \* those of them emitted as an event or written to the player
    n_deltas,         \* text deltas pulled from the generation provider
    llm_state,        \* the text stream: "open" | "ended" | "failed"
    stories,          \* story records persisted by crud.create_story
    player_process,   \* "none" | "running" | "exited"  (the aplay child)
    player_stdin,     \* "none" | "open" | "closing"
    cancelled,        \* a CancelledError was delivered to the orchestrator
    reraised,         \* the orchestrator re-raised the CancelledError to its caller
    failed_streams,   \* synthesis streams whose generator raised into the orchestrator
    \* ---- device-triggered flow (serial/monitor.py, serial/esp32.py) ----
    monitoring_active,             \* _monitoring_active
    story_generation_in_progress,  \* _story_generation_in_progress
    serial_open,      \* manager.serial_conn is open
    mon,              \* per monitor task: "idle" | "loop" | "callback" | "ended"
    call_req,         \* per monitor task: the request its accepted call waits for (0: none)
    event_count,      \* per monitor task: events its accepted call has read
    gen,              \* per request: its generate_and_play_stream run
    chan,             \* per request: events sent and not yet read by the caller
    conn_open,        \* per request: the HTTP stream is still open
    n_requests,       \* requests sent to /generate_and_play_local_streaming
    n_dropped,        \* selections ignored because a generation was in progress
    monitor_task,     \* manager.monitor_task: the task it holds (0: None)
    \* ---- blocking /generate path (stories.py, core/story_generator.py) ----
    LLM_PROVIDER,     \* os.environ["LLM_PROVIDER"], or Unset
    llm_provider,     \* class of story_generator.llm_provider (module-level singleton)
    gpc,              \* position of the /generate handler: "idle" | "first" | "retry"
    attempt_log,      \* calls of StoryGenerator.generate_story made by the current request
    response,         \* "none" | "story" | "http500"
    db_stories,       \* story records persisted by StoryGenerator.generate_story
    n_gen_requests,   \* /generate requests received
    audio_result,     \* what story_generator.generate_audio did for the current request
    response_audio_path,  \* audio_path of the story returned to the caller
    TTS_PROVIDER,     \* os.environ["TTS_PROVIDER"], or Unset
    TTS_VOICE_ID,     \* os.environ["TTS_VOICE_ID"], or Unset
    startup_environ,  \* the three variables as they were when the process started
    story_request,    \* llm_provider, tts_provider and voice_id of the current request
    stored_preferences,  \* the same three fields of the stored preferences, or NoStored
    audio_used,       \* provider name and voice generate_audio used for the current request
    \* ---- generate_story_streaming of the generation providers (app/llm) ----
    text_provider,    \* class of the provider whose stream is consumed
    text_gen,         \* the async generator: "created" | "streaming" | "ended" | "raised"
    yielded,          \* deltas the generator has yielded, in order
    received,         \* deltas the consumer's async for has received, in order
    backend_failed,   \* the backend call or its response stream raised
    logged_error,     \* logger.error was called by the generator
    n_backend_chunks, \* chunks the backend has produced
    \* ---- StorySeedBank (core/story_seed_bank.py) ----
    cache_file,       \* the cache file shared by every bank: absent, damaged, or a JSON object
    cached_scenarios, \* per bank: self.cached_scenarios
    bank_pc,          \* per bank: "unbuilt" | "ready" | "save" | "writing"
    cur_call,         \* per bank: its current or last call of get_random_story_seed
    dirty,            \* per bank: another writer has written the file since this bank opened it
    n_passes,         \* generate-10 passes made so far, by all banks
    n_seed_calls,     \* calls of get_random_story_seed made so far, by all banks
    \* ---- synthesis providers (app/tts) ----
    provider_name,    \* the name last given to TTSFactory.get_provider
    tts_instance,     \* what get_provider produced: a class name (an instance) or the error raised
    output_dir,       \* names of the files in AUDIO_DIR
    tts_pc,           \* "idle" | "blocked" (inside subprocess.run) | "streaming"
    process,          \* the Piper child of the blocking call: "none" | "running" | "hung" | "exited0" | "exited1"
    tts_call,         \* the current or last call of generate_audio / generate_audio_streaming
    audio_chunks,     \* chunks the current or last synthesis stream has yielded, in order
    named,            \* names the friendly-filename policy has returned, in order
    n_tts_calls,      \* provider calls made so far
    \* ---- story elements and the prompt (core/randomizer.py, llm/base.py) ----
    ppc,              \* "start" | "randomized" | "elements" | "prompted"
    frequencies,      \* self.frequencies["characters"]: name -> count of recent uses
    preferences,      \* the preferences given to randomize_story_elements
    last_choice,      \* the last call of _weighted_random_choice: options, weights, pick
    random_elements,  \* the dict randomize_story_elements returned
    elements_before,  \* random_elements as it was when apply_preferences was called
    story_elements,   \* the elements given to create_story_prompt
    character_names,  \* create_story_prompt: the resolved character list
    scenario,         \* get_specific_scenario: the sentence built, by its parts
    target_words      \* create_story_prompt: the target word count

streamVars == <<endpoint, generate_audio, pc, full_text, chunk_buffer, text_to_process,
                full_audio_data, events, forwarded, tts_open, cur_stream, n_chunks, n_emitted,
                n_deltas, llm_state, stories, player_process, player_stdin,
                cancelled, reraised, failed_streams>>

monitorVars == <<monitoring_active, story_generation_in_progress, serial_open, mon,
                 call_req, event_count, gen, chan, conn_open, n_requests, n_dropped,
                 monitor_task>>

genVars == <<LLM_PROVIDER, llm_provider, gpc, attempt_log, response,
             db_stories, n_gen_requests, audio_result, response_audio_path,
             TTS_PROVIDER, TTS_VOICE_ID, startup_environ, story_request,
             stored_preferences, audio_used>>

textVars == <<text_provider, text_gen, yielded, received, backend_failed, logged_error,
              n_backend_chunks>>

seedVars == <<cache_file, cached_scenarios, bank_pc, cur_call, dirty, n_passes, n_seed_calls>>

ttsVars == <<provider_name, tts_instance, output_dir, tts_pc, process, tts_call,
             audio_chunks, named, n_tts_calls>>

promptVars == <<ppc, frequencies, preferences, last_choice, random_elements, elements_before,
                story_elements, character_names, scenario, target_words>>

vars == <<streamVars, monitorVars, genVars, textVars, seedVars, ttsVars, promptVars>>

\* What an action of one part leaves alone: the variables of the other parts.
notStream == <<monitorVars, genVars, textVars, seedVars, ttsVars, promptVars>>
notMonitor == <<streamVars, genVars, textVars, seedVars, ttsVars, promptVars>>
notGen == <<streamVars, monitorVars, textVars, seedVars, ttsVars, promptVars>>
notText == <<streamVars, monitorVars, genVars, seedVars, ttsVars, promptVars>>
notSeed == <<streamVars, monitorVars, genVars, textVars, ttsVars, promptVars>>
notTts == <<streamVars, monitorVars, genVars, textVars, seedVars, promptVars>>
notPrompt == <<streamVars, monitorVars, genVars, textVars, seedVars, ttsVars>>

----------------------------------------------------------------------------
\* Bounds of the model.
MaxDeltas == 3        \* text deltas one generation yields at most
MaxAudioChunks == 1   \* audio chunks one synthesis stream yields at most

\* Program constant: minimum pending size before segmentation is attempted.
MinChunkLen == 50

NumMonitorTasks == 2  \* calls of start_esp32_monitor (monitor tasks)
MaxRequests == 2      \* requests the device-triggered flow sends
MaxDropped == 2       \* selections counted as ignored

\* Program constant: monitor.py, max_events.
MaxEventsRead == 100

MaxGenRequests == 2   \* /generate requests served
MaxBackendChunks == 3 \* chunks one backend response stream produces at most
NumBanks == 2         \* StorySeedBank instances sharing the cache file
MaxSeedCalls == 2     \* calls of get_random_story_seed, all banks together

\* Program constant: story_seed_bank.py, range(10).
PoolSize == 10

MaxTtsCalls == 3      \* calls of generate_audio and generate_audio_streaming
MaxPcmChunks == 2     \* audio chunks one provider stream yields at most

RosterSize == 4       \* names of the configured roster that are modelled
MaxFreq == 2          \* highest count in the frequency table
MaxSupplied == 2      \* characters a request supplies at most

RECURSIVE Rep(_, _)
Rep(c, n) == IF n = 0 THEN <<>> ELSE <<c>> \o Rep(c, n - 1)

\* The text deltas the generation provider may yield.
Word20 == Rep("a", 20)                     \* part of a sentence, no boundary
Sent24 == Rep("a", 22) \o <<".", " ">>     \* a complete sentence and its trailing blank
Short3 == <<"a", ".", " ">>                \* a short complete sentence
Long50 == Rep("a", 47) \o <<".", " ", "a">>  \* a sentence and the start of the next
Deltas == {Word20, Sent24, Short3, Long50}

----------------------------------------------------------------------------
\* pysbd.Segmenter(language="en", clean=False).segment: non-destructive
\* segmentation; a sentence ends after a terminator and the whitespace that
\* follows it, and keeps that whitespace.
IsBoundary(buf, i) ==
    /\ i < Len(buf)
    /\ buf[i] = " "
    /\ buf[i + 1] # " "
    /\ \E j \in 1..(i - 1) : buf[j] = "." /\ \A k \in (j + 1)..i : buf[k] = " "

RECURSIVE SegmentFrom(_, _, _)
SegmentFrom(buf, start, i) ==
    IF i > Len(buf)
    THEN IF start > Len(buf) THEN <<>> ELSE <<SubSeq(buf, start, Len(buf))>>
    ELSE IF IsBoundary(buf, i)
         THEN <<SubSeq(buf, start, i)>> \o SegmentFrom(buf, i + 1, i + 1)
         ELSE SegmentFrom(buf, start, i + 1)

Segment(buf) == SegmentFrom(buf, 1, 1)

\* " ".join(sentences)
RECURSIVE JoinSpace(_)
JoinSpace(ss) ==
    IF Len(ss) = 0 THEN <<>>
    ELSE IF Len(ss) = 1 THEN ss[1]
    ELSE ss[1] \o <<" ">> \o JoinSpace(Tail(ss))

\* "".join(texts)
RECURSIVE Concat(_)
Concat(ss) == IF Len(ss) = 0 THEN <<>> ELSE ss[1] \o Concat(Tail(ss))

Front(s) == SubSeq(s, 1, Len(s) - 1)
Last(s) == s[Len(s)]

----------------------------------------------------------------------------
\* stories.py:561 and 797: the synthesis provider exists when audio is wanted.
tts_provider == generate_audio

\* Mutant: the minimum pending size is not checked.
ReadyToForward_NoMinLen(buf) == tts_provider /\ Len(Segment(buf)) > 1

\* stories.py:602/605 and 845/847: enough pending text, and more than one sentence.
ReadyToForward(buf) ==
    /\ tts_provider
    /\ Len(buf) >= MinChunkLen
    /\ Len(Segment(buf)) > 1

\* stories.py:607 and 848
TextToProcess(buf) == JoinSpace(Front(Segment(buf)))

\* stories.py:608 and 849
KeptBuffer(buf) == Last(Segment(buf))

\* stories.py:857, 877, 887: the player can still take audio.
PlayerStdinOk == player_process # "none" /\ player_stdin = "open"

Event(kind, data) == [event |-> kind, data |-> data]

StreamInit ==
    /\ endpoint \in {"sse", "local"}
    /\ generate_audio \in BOOLEAN
    /\ (endpoint = "local") => generate_audio
    /\ pc = "start"
    /\ full_text = <<>>
    /\ chunk_buffer = <<>>
    /\ text_to_process = <<>>
    /\ full_audio_data = <<>>
    /\ events = <<>>
    /\ forwarded = <<>>
    /\ tts_open = {}
    /\ cur_stream = 0
    /\ n_chunks = 0
    /\ n_emitted = 0
    /\ n_deltas = 0
    /\ llm_state = "open"
    /\ stories = <<>>
    /\ player_process = "none"
    /\ player_stdin = "none"
    /\ cancelled = FALSE
    /\ reraised = FALSE
    /\ failed_streams = {}

\* generate_audio_streaming(text=...) is called and its stream starts.
OpenStream(text, nextpc) ==
    /\ text_to_process' = text
    /\ forwarded' = Append(forwarded, text)
    /\ cur_stream' = cur_stream + 1
    /\ tts_open' = tts_open \cup {cur_stream + 1}
    /\ n_chunks' = 0
    /\ n_emitted' = 0
    /\ pc' = nextpc

NoStream == UNCHANGED <<text_to_process, forwarded, cur_stream, tts_open, n_chunks, n_emitted>>

\* generate_streaming_content: the metadata event.
EmitMetadata ==
    /\ endpoint = "sse" /\ pc = "start"
    /\ events' = Append(events, Event("metadata", <<>>))
    /\ pc' = "text_loop"
    /\ UNCHANGED <<notStream, failed_streams, endpoint, generate_audio, full_text, chunk_buffer, text_to_process,
                   full_audio_data, forwarded, tts_open, cur_stream, n_chunks, n_emitted, n_deltas,
                   llm_state, stories, player_process, player_stdin, cancelled, reraised>>

\* generate_and_play_stream: the aplay child is started, or cannot be.
StartPlayer ==
    /\ endpoint = "local" /\ pc = "start"
    /\ \/ /\ player_process' = "running"
          /\ player_stdin' = "open"
          /\ events' = Append(events, Event("status", "Player started"))
          /\ pc' = "text_loop"
       \/ /\ UNCHANGED <<player_process, player_stdin>>
          /\ events' = Append(events, Event("error", "player"))
          /\ pc' = "done"
    /\ UNCHANGED <<notStream, failed_streams, endpoint, generate_audio, full_text, chunk_buffer, text_to_process,
                   full_audio_data, forwarded, tts_open, cur_stream, n_chunks, n_emitted, n_deltas,
                   llm_state, stories, cancelled, reraised>>

\* Mutant: the delta replaces the transcript.
Accumulated_Replace(text, text_chunk) == text_chunk

\* stories.py:586 and 835: full_text += text_chunk
Accumulated(text, text_chunk) == text \o text_chunk

\* One iteration of the text loop up to its next await: the delta is appended
\* to both buffers, emitted as a text event (sse), and the ready sentences are
\* forwarded to synthesis.
PullDelta ==
    /\ pc = "text_loop" /\ n_deltas < MaxDeltas
    /\ \E text_chunk \in Deltas :
         LET buf == chunk_buffer \o text_chunk IN
         /\ full_text' = Accumulated(full_text, text_chunk)
         /\ n_deltas' = n_deltas + 1
         /\ events' = IF endpoint = "sse"
                      THEN Append(events, Event("text", text_chunk))
                      ELSE events
         /\ IF ReadyToForward(buf)
            THEN /\ chunk_buffer' = KeptBuffer(buf)
                 /\ OpenStream(TextToProcess(buf), "audio")
            ELSE /\ chunk_buffer' = buf
                 /\ pc' = "text_loop"
                 /\ NoStream
    /\ UNCHANGED <<notStream, failed_streams, endpoint, generate_audio, full_audio_data, llm_state, stories,
                   player_process, player_stdin, cancelled, reraised>>

\* stories.py:634 and 887: is the remainder flushed through synthesis?
FinalFlush ==
    /\ chunk_buffer # <<>>
    /\ tts_provider
    /\ (endpoint = "local") => PlayerStdinOk

\* The text stream ends; the remainder is flushed.
LlmEnd ==
    /\ pc = "text_loop"
    /\ llm_state' = "ended"
    /\ IF FinalFlush
       THEN OpenStream(chunk_buffer, "final_audio")
       ELSE pc' = "save" /\ NoStream
    /\ UNCHANGED <<notStream, failed_streams, endpoint, generate_audio, full_text, chunk_buffer, full_audio_data,
                   events, n_deltas, stories, player_process, player_stdin,
                   cancelled, reraised>>

\* Mutant: no return after the error event.
AfterTextError_NoReturn == "save"

\* stories.py:657-664: generate_streaming_content returns after the error
\* event; stories.py:909-912: generate_and_play_stream goes on to save.
AfterTextError == IF endpoint = "sse" THEN "done" ELSE "save"

\* The text stream raises (text_err).
LlmFail ==
    /\ pc = "text_loop"
    /\ llm_state' = "failed"
    /\ events' = Append(events, Event("error", "text"))
    /\ pc' = AfterTextError
    /\ UNCHANGED <<notStream, failed_streams, endpoint, generate_audio, full_text, chunk_buffer, text_to_process,
                   full_audio_data, forwarded, tts_open, cur_stream, n_chunks, n_emitted, n_deltas,
                   stories, player_process, player_stdin, cancelled, reraised>>

\* Mutant: the text loop goes on although the audio loop was left by a break.
AfterSentenceAudio_NoPlayerCheck(stdin) == "text_loop"

\* stories.py:877-879: after a sentence's audio loop, a player whose stdin is
\* gone ends the text loop; otherwise the text loop pulls the next delta.
AfterSentenceAudio(stdin) ==
    IF endpoint = "local" /\ ~(player_process # "none" /\ stdin = "open")
    THEN "save"
    ELSE "text_loop"

\* Where the orchestrator goes when a mid-stream or final audio loop is over.
AfterAudioLoop(stdin) == IF pc = "final_audio" THEN "save" ELSE AfterSentenceAudio(stdin)

\* Mutant: an exception of the synthesis stream ends the run.
AfterAudioError_Aborts == "done"

\* stories.py:881 and 629: an exception of the synthesis stream is logged and
\* the text loop goes on (the check of line 877 is skipped).
AfterAudioError == IF pc = "final_audio" THEN "save" ELSE "text_loop"

InAudio == pc \in {"audio", "final_audio"}

\* The synthesis stream yields one audio chunk: emitted as an audio event
\* (sse) or written to the player's stdin (local), and accumulated.
AudioChunk ==
    /\ InAudio /\ n_chunks < MaxAudioChunks
    /\ cur_stream \in tts_open
    /\ n_chunks' = n_chunks + 1
    /\ \/ /\ endpoint = "sse"
          /\ events' = Append(events, Event("audio", text_to_process))
          /\ full_audio_data' = Append(full_audio_data, cur_stream)
          /\ n_emitted' = n_emitted + 1
          /\ UNCHANGED <<pc, player_stdin>>
       \/ \* written and drained
          /\ endpoint = "local" /\ PlayerStdinOk
          /\ full_audio_data' = Append(full_audio_data, cur_stream)
          /\ n_emitted' = n_emitted + 1
          /\ UNCHANGED <<pc, events, player_stdin>>
       \/ \* the write fails (connection lost): break, the stream is left undrained
          /\ endpoint = "local" /\ PlayerStdinOk
          /\ player_stdin' = "closing"
          /\ pc' = AfterAudioLoop("closing")
          /\ UNCHANGED <<events, full_audio_data, n_emitted>>
       \/ \* stories.py:872-874: the player is gone, break out of the audio loop
          /\ endpoint = "local" /\ ~PlayerStdinOk /\ pc = "audio"
          /\ pc' = AfterAudioLoop(player_stdin)
          /\ UNCHANGED <<events, full_audio_data, player_stdin, n_emitted>>
       \/ \* stories.py:894: the final loop has no else branch, the chunk is dropped
          /\ endpoint = "local" /\ ~PlayerStdinOk /\ pc = "final_audio"
          /\ UNCHANGED <<pc, events, full_audio_data, player_stdin, n_emitted>>
    /\ UNCHANGED <<notStream, failed_streams, endpoint, generate_audio, full_text, chunk_buffer, text_to_process,
                   forwarded, tts_open, cur_stream, n_deltas, llm_state, stories,
                   player_process, cancelled, reraised>>

\* The synthesis stream is exhausted: its generator has finished.
AudioEnd ==
    /\ InAudio /\ cur_stream \in tts_open
    /\ tts_open' = tts_open \ {cur_stream}
    /\ pc' = AfterAudioLoop(player_stdin)
    /\ UNCHANGED <<notStream, failed_streams, endpoint, generate_audio, full_text, chunk_buffer, text_to_process,
                   full_audio_data, events, forwarded, cur_stream, n_chunks, n_emitted, n_deltas,
                   llm_state, stories, player_process, player_stdin, cancelled, reraised>>

\* The synthesis stream raises: its generator has finished, the error is logged.
AudioFail ==
    /\ InAudio /\ cur_stream \in tts_open
    /\ tts_open' = tts_open \ {cur_stream}
    /\ failed_streams' = failed_streams \cup {cur_stream}
    /\ pc' = AfterAudioError
    /\ UNCHANGED <<notStream, endpoint, generate_audio, full_text, chunk_buffer, text_to_process,
                   full_audio_data, events, forwarded, cur_stream, n_chunks, n_emitted, n_deltas,
                   llm_state, stories, player_process, player_stdin, cancelled, reraised>>

\* The aplay child exits on its own; its stdin pipe is lost.
PlayerDies ==
    /\ player_process = "running"
    /\ pc \in {"text_loop", "audio", "final_audio"}
    /\ player_process' = "exited"
    /\ player_stdin' = "closing"
    /\ UNCHANGED <<notStream, failed_streams, endpoint, generate_audio, pc, full_text, chunk_buffer, text_to_process,
                   full_audio_data, events, forwarded, tts_open, cur_stream, n_chunks, n_emitted,
                   n_deltas, llm_state, stories, cancelled, reraised>>

\* stories.py:919-925: the player's stdin is closed once the loops are over.
ClosedStdin == IF player_stdin = "open" THEN "closing" ELSE player_stdin

\* stories.py:678-706: the accumulated audio is saved, or saving fails.
AudioPaths == IF full_audio_data # <<>> THEN {"file", "null"} ELSE {"null"}

\* The story is persisted and the complete event emitted, or persisting fails.
SaveStory ==
    /\ pc = "save"
    /\ player_stdin' = ClosedStdin
    /\ \/ \E audio_path \in AudioPaths :
            /\ stories' = Append(stories, [id |-> Len(stories) + 1,
                                           story_text |-> full_text,
                                           audio_path |-> audio_path])
            /\ events' = Append(events, Event("complete", Len(stories) + 1))
       \/ /\ events' = Append(events, Event("error", "db"))
          /\ UNCHANGED stories
    /\ pc' = IF endpoint = "sse" THEN "done" ELSE "wait_player"
    /\ UNCHANGED <<notStream, failed_streams, endpoint, generate_audio, full_text, chunk_buffer, text_to_process,
                   full_audio_data, forwarded, tts_open, cur_stream, n_chunks, n_emitted, n_deltas,
                   llm_state, player_process, cancelled, reraised>>

\* stories.py:1001-1009: player_process.communicate() returns when aplay has
\* exited; then 'Playback complete' is emitted and the generator finishes.
WaitPlayer ==
    /\ endpoint = "local" /\ pc = "wait_player"
    /\ player_process' = "exited"
    /\ events' = Append(events, Event("status", "Playback complete"))
    /\ pc' = "done"
    /\ UNCHANGED <<notStream, failed_streams, endpoint, generate_audio, full_text, chunk_buffer, text_to_process,
                   full_audio_data, forwarded, tts_open, cur_stream, n_chunks, n_emitted, n_deltas,
                   llm_state, stories, player_stdin, cancelled, reraised>>

\* stories.py:1023-1041, the finally block: a player still running is
\* terminated and waited for, and its stdin closed.
CleanedPlayer == IF player_process = "running" THEN "exited" ELSE player_process

\* The places where generate_and_play_stream is suspended in an await of its own.
AtAwait == pc \in {"text_loop", "audio", "final_audio", "wait_player"}

\* A CancelledError is delivered to generate_and_play_stream at an await. When
\* it waits for the next audio chunk the error is raised inside the synthesis
\* generator, which terminates its child and finishes
\* (piper_provider.py:490-502); when it waits for player_process.stdin.drain()
\* (stories.py:861, 897) the synthesis generator is suspended at its yield and
\* is left as it is. The handler of stories.py:1011 then yields 'Cancelled'.
Cancel ==
    /\ endpoint = "local" /\ AtAwait /\ ~cancelled
    /\ cancelled' = TRUE
    /\ \/ /\ InAudio /\ cur_stream \in tts_open
          /\ tts_open' = tts_open \ {cur_stream}
       \/ /\ InAudio /\ cur_stream \in tts_open /\ n_chunks > 0 /\ PlayerStdinOk
          /\ UNCHANGED tts_open
       \/ /\ ~InAudio
          /\ UNCHANGED tts_open
    /\ events' = Append(events, Event("status", "Cancelled"))
    /\ pc' = "cancel_yield"
    /\ UNCHANGED <<notStream, failed_streams, endpoint, generate_audio, full_text, chunk_buffer, text_to_process,
                   full_audio_data, forwarded, cur_stream, n_chunks, n_emitted, n_deltas, llm_state,
                   stories, player_process, player_stdin, reraised>>

\* stories.py:1015 and 1023-1041: resumed after the 'Cancelled' event, the
\* generator re-raises the CancelledError and its finally block cleans up the player.
CancelReraise ==
    /\ pc = "cancel_yield"
    /\ reraised' = TRUE
    /\ player_process' = CleanedPlayer
    /\ player_stdin' = ClosedStdin
    /\ pc' = "done"
    /\ UNCHANGED <<notStream, failed_streams, endpoint, generate_audio, full_text, chunk_buffer, text_to_process,
                   full_audio_data, events, forwarded, tts_open, cur_stream, n_chunks, n_emitted,
                   n_deltas, llm_state, stories, cancelled>>

\* A synthesis generator the orchestrator has left (break, or an exception that
\* passed through the audio loop) is no longer iterated.
Abandoned(s) == s \in tts_open /\ ~(InAudio /\ s = cur_stream)

\* The event loop's async-generator finalizer closes an abandoned synthesis
\* generator at some later time; its finally block terminates the child
\* (piper_provider.py:514-524).
FinalizeStream ==
    /\ \E s \in tts_open : Abandoned(s) /\ tts_open' = tts_open \ {s}
    /\ UNCHANGED <<notStream, failed_streams, endpoint, generate_audio, pc, full_text, chunk_buffer, text_to_process,
                   full_audio_data, events, forwarded, cur_stream, n_chunks, n_emitted, n_deltas,
                   llm_state, stories, player_process, player_stdin, cancelled, reraised>>

StreamNext ==
    \/ EmitMetadata
    \/ StartPlayer
    \/ PullDelta
    \/ LlmEnd
    \/ LlmFail
    \/ AudioChunk
    \/ AudioEnd
    \/ AudioFail
    \/ PlayerDies
    \/ SaveStory
    \/ WaitPlayer
    \/ Cancel
    \/ CancelReraise
    \/ FinalizeStream


----------------------------------------------------------------------------
\* Claims about the streaming orchestrators.

\* C1: the texts forwarded to synthesis mid-stream followed by the final
\* flushed remainder concatenate to exactly the accumulated transcript.
\* (Stated where the final remainder has just been forwarded.)
C1_FlushConcatIsTranscript ==
    (generate_audio /\ pc = "final_audio") => Concat(forwarded) = full_text

\* C2, a forward while the text stream is open: the pending buffer held at
\* least MinChunkLen characters and more than one sentence, all sentences but
\* the last were forwarded and the last one stays pending.
C2_MidStreamForward ==
    /\ llm_state' = "open"
    /\ generate_audio
    /\ \E d \in Deltas :
         LET buf == chunk_buffer \o d
             sentences == Segment(buf) IN
         /\ full_text' = full_text \o d
         /\ Len(buf) >= MinChunkLen
         /\ Len(sentences) > 1
         /\ Last(forwarded') = JoinSpace(Front(sentences))
         /\ chunk_buffer' = Last(sentences)

\* C2, the final flush: the text stream has just ended and the pending buffer
\* is forwarded as it is.
C2_FinalFlush ==
    /\ llm_state = "open" /\ llm_state' = "ended"
    /\ Last(forwarded') = chunk_buffer
    /\ chunk_buffer' = chunk_buffer

\* C2: trailing-sentence deferral. Every call of generate_audio_streaming is
\* either a mid-stream forward of all sentences but the last, made with at
\* least 50 pending characters and more than one sentence, or the final flush
\* after the text stream ended.
C2_TrailingSentenceDeferred ==
    [][Len(forwarded') > Len(forwarded) => (C2_MidStreamForward \/ C2_FinalFlush)]_vars

\* C2 witness: a mid-stream forward was made, its last sentence is pending,
\* and a second mid-stream forward followed.
C2_Witness ==
    /\ pc = "audio" /\ llm_state = "open"
    /\ Len(forwarded) = 2
    /\ chunk_buffer # <<>>

\* C3: lockstep. At most one synthesis stream is open, and when the text loop
\* is about to pull the next delta the stream of the last sentence group has
\* finished with every chunk it yielded emitted.
C3_Lockstep ==
    /\ Cardinality(tts_open) <= 1
    /\ (pc = "text_loop" => (tts_open = {} /\ n_emitted = n_chunks))

\* C3 witness: the text loop resumes after a sentence group whose audio chunks
\* were all emitted.
C3_Witness ==
    /\ pc = "text_loop" /\ cur_stream >= 1 /\ n_chunks >= 1
    /\ n_emitted = n_chunks /\ tts_open = {}

EventKinds(kinds) == {i \in 1..Len(events) : events[i].event \in kinds}

\* C4: event ordering of generate_streaming_content. The metadata event is
\* emitted exactly once and first; complete is emitted at most once, carries
\* the id of a persisted story, and nothing but error events follows a
\* complete or an error event.
C4_EventOrdering ==
    (endpoint = "sse" /\ pc # "start") =>
        /\ EventKinds({"metadata"}) = {1}
        /\ Cardinality(EventKinds({"complete"})) <= 1
        /\ \A i \in EventKinds({"complete"}) :
              \E k \in 1..Len(stories) : stories[k].id = events[i].data
        /\ \A i \in EventKinds({"complete", "error"}) :
              \A j \in (i + 1)..Len(events) :
                 events[j].event \notin {"text", "audio", "complete"}

\* C4 witness: a finished run with text, audio and complete events.
C4_Witness ==
    /\ endpoint = "sse" /\ pc = "done"
    /\ EventKinds({"text"}) # {} /\ EventKinds({"audio"}) # {}
    /\ EventKinds({"complete"}) # {}

\* C13: per-sub-stream error isolation in generate_streaming_content. A
\* synthesis stream that raises, mid-stream or in the final flush, does not
\* end the run and emits no event: the text loop (or the save) goes on. A
\* run with a failed synthesis stream whose text stream ended has emitted
\* every delta as a text event, and unless persisting failed the whole
\* transcript is persisted and the complete event emitted.
C13_SubStreamFailureGoesOn ==
    (endpoint = "sse" /\ failed_streams' # failed_streams) =>
        /\ pc' = IF pc = "final_audio" THEN "save" ELSE "text_loop"
        /\ UNCHANGED <<events, llm_state, full_text, chunk_buffer, stories>>

C13_SubStreamFailureOutcome ==
    (endpoint = "sse" /\ failed_streams # {} /\ pc = "done" /\ llm_state = "ended") =>
        /\ Cardinality(EventKinds({"text"})) = n_deltas
        /\ \/ EventKinds({"error"}) # {}
           \/ /\ EventKinds({"complete"}) # {}
              /\ Len(stories) = 1 /\ stories[1].story_text = full_text

C13_SubStreamIsolation ==
    [][C13_SubStreamFailureGoesOn]_vars /\ []C13_SubStreamFailureOutcome

\* C13 witness: a run whose first synthesis stream raised mid-stream has
\* gone on to pull text and has emitted the complete event.
C13_Witness ==
    /\ endpoint = "sse" /\ pc = "done"
    /\ 1 \in failed_streams /\ cur_stream >= 2
    /\ EventKinds({"complete"}) # {}
    /\ Len(stories) = 1

\* C7: cancellation of generate_and_play_stream. When the cancelled generator
\* has finished, the CancelledError was re-raised and no child process is
\* still running: neither the player nor the child of a synthesis stream.
C7_CancelTerminatesChildren ==
    (endpoint = "local" /\ cancelled /\ pc = "done") =>
        /\ reraised
        /\ player_process # "running"
        /\ tts_open = {}

----------------------------------------------------------------------------
\* The device-triggered flow: serial/monitor.py and
\* ESP32SerialManager.monitor_serial, with the run of
\* generate_and_play_stream each accepted request starts on the server.

MonTasks == 1..NumMonitorTasks
Requests == 1..MaxRequests

MonitorInit ==
    /\ monitoring_active = FALSE
    /\ story_generation_in_progress = FALSE
    /\ serial_open = FALSE
    /\ mon = [t \in MonTasks |-> "idle"]
    /\ call_req = [t \in MonTasks |-> 0]
    /\ event_count = [t \in MonTasks |-> 0]
    /\ gen = [r \in Requests |-> "none"]
    /\ chan = [r \in Requests |-> <<>>]
    /\ conn_open = [r \in Requests |-> FALSE]
    /\ n_requests = 0
    /\ n_dropped = 0
    /\ monitor_task = 0

\* start_esp32_monitor up to its first await: returns when monitoring is
\* already active, else sets the flag, connects and enters monitor_serial.
StartMonitor(t) ==
    /\ mon[t] = "idle"
    /\ IF monitoring_active
       THEN /\ mon' = [mon EXCEPT ![t] = "ended"]
            /\ UNCHANGED <<monitoring_active, serial_open>>
       ELSE \/ /\ monitoring_active' = TRUE
               /\ serial_open' = TRUE
               /\ mon' = [mon EXCEPT ![t] = "loop"]
            \/ \* manager.connect() fails
               /\ ~serial_open
               /\ monitoring_active' = FALSE
               /\ mon' = [mon EXCEPT ![t] = "ended"]
               /\ UNCHANGED serial_open
    /\ UNCHANGED <<notMonitor, monitor_task, story_generation_in_progress, call_req, event_count, gen, chan,
                   conn_open, n_requests, n_dropped>>

\* stop_esp32_monitor
StopMonitor ==
    /\ monitoring_active
    /\ monitoring_active' = FALSE
    /\ serial_open' = FALSE
    /\ UNCHANGED <<notMonitor, monitor_task, story_generation_in_progress, mon, call_req, event_count, gen, chan,
                   conn_open, n_requests, n_dropped>>

\* monitor_serial finds the connection closed: the loop ends and the finally
\* block of start_esp32_monitor clears the flag.
LoopExit(t) ==
    /\ mon[t] = "loop" /\ ~serial_open
    /\ mon' = [mon EXCEPT ![t] = "ended"]
    /\ monitoring_active' = FALSE
    /\ UNCHANGED <<notMonitor, monitor_task, story_generation_in_progress, serial_open, call_req, event_count,
                   gen, chan, conn_open, n_requests, n_dropped>>

\* monitor.py:40: a generation is in progress, the selection is ignored.
Busy == story_generation_in_progress

\* Mutant: the ignored call clears the flag (as if its return ran the finally block).
FlagAfterDrop_Cleared == FALSE

\* monitor.py:40-42: the flag as the ignored call leaves it (it returns before
\* the try block, so the finally block does not run).
FlagAfterDrop == story_generation_in_progress

\* monitor_serial reads a selection and awaits process_character_selection,
\* which ignores it or accepts it (sets the flag and starts the request).
Selection(t) ==
    /\ mon[t] = "loop" /\ serial_open
    /\ IF Busy
       THEN /\ n_dropped < MaxDropped
            /\ n_dropped' = n_dropped + 1
            /\ story_generation_in_progress' = FlagAfterDrop
            /\ UNCHANGED mon
       ELSE /\ n_requests < MaxRequests
            /\ story_generation_in_progress' = TRUE
            /\ mon' = [mon EXCEPT ![t] = "callback"]
            /\ UNCHANGED n_dropped
    /\ UNCHANGED <<notMonitor, monitor_task, monitoring_active, serial_open, call_req, event_count, gen, chan,
                   conn_open, n_requests>>

\* Mutant: the accepted call ends without its finally block.
FlagAfterReturn_Kept == story_generation_in_progress

\* monitor.py:115-116: the flag as the finally block of an accepted call leaves it.
FlagAfterReturn == FALSE

\* monitor.py:115-117: the accepted call ends; its finally block clears the
\* flag, the HTTP stream is closed and monitor_serial goes on.
Return(t) ==
    /\ story_generation_in_progress' = FlagAfterReturn
    /\ mon' = [mon EXCEPT ![t] = "loop"]
    /\ call_req' = [call_req EXCEPT ![t] = 0]
    /\ event_count' = [event_count EXCEPT ![t] = 0]
    /\ conn_open' = [r \in Requests |-> IF r = call_req[t] THEN FALSE ELSE conn_open[r]]

\* monitor.py:54-59: the POST is answered with status 200 and the server
\* starts generate_and_play_stream.
SendRequest(t) ==
    /\ mon[t] = "callback" /\ call_req[t] = 0
    /\ n_requests' = n_requests + 1
    /\ call_req' = [call_req EXCEPT ![t] = n_requests + 1]
    /\ gen' = [gen EXCEPT ![n_requests + 1] = "accepted"]
    /\ conn_open' = [conn_open EXCEPT ![n_requests + 1] = TRUE]
    /\ UNCHANGED <<notMonitor, monitor_task, monitoring_active, story_generation_in_progress, serial_open, mon,
                   event_count, chan, n_dropped>>

\* monitor.py:60-61 and 111-112: the request fails or is answered with another status.
RequestFails(t) ==
    /\ mon[t] = "callback" /\ call_req[t] = 0
    /\ Return(t)
    /\ UNCHANGED <<notMonitor, monitor_task, monitoring_active, serial_open, gen, chan, n_requests, n_dropped>>

\* monitor.py:80-100: does the accepted call stop reading after this event?
StopsReading(t, e) ==
    \/ event_count[t] + 1 > MaxEventsRead
    \/ e = "complete"
    \/ e = "Playback complete"

\* monitor.py:74-104: one event of the stream is read.
ReadEvent(t) ==
    /\ mon[t] = "callback" /\ call_req[t] # 0
    /\ chan[call_req[t]] # <<>>
    /\ chan' = [chan EXCEPT ![call_req[t]] = Tail(@)]
    /\ IF StopsReading(t, Head(chan[call_req[t]]))
       THEN Return(t)
       ELSE /\ event_count' = [event_count EXCEPT ![t] = @ + 1]
            /\ UNCHANGED <<story_generation_in_progress, mon, call_req, conn_open>>
    /\ UNCHANGED <<notMonitor, monitor_task, monitoring_active, serial_open, gen, n_requests, n_dropped>>

\* The server has closed the stream and every event was read.
StreamEnd(t) ==
    /\ mon[t] = "callback" /\ call_req[t] # 0
    /\ chan[call_req[t]] = <<>> /\ gen[call_req[t]] = "ended"
    /\ Return(t)
    /\ UNCHANGED <<notMonitor, monitor_task, monitoring_active, serial_open, gen, chan, n_requests, n_dropped>>

\* monitor.py:105-108: reading the stream raises (stream_err).
StreamRaises(t) ==
    /\ mon[t] = "callback" /\ call_req[t] # 0
    /\ Return(t)
    /\ UNCHANGED <<notMonitor, monitor_task, monitoring_active, serial_open, gen, chan, n_requests, n_dropped>>

Running(r) == gen[r] \in {"accepted", "generating", "playing"}

Emit(r, e) == chan' = [chan EXCEPT ![r] = IF conn_open[r] THEN Append(@, e) ELSE @]

\* stories.py:810-828: the player is started ('Player started'), or cannot be.
GenStartPlayer(r) ==
    /\ gen[r] = "accepted"
    /\ \/ Emit(r, "Player started") /\ gen' = [gen EXCEPT ![r] = "generating"]
       \/ Emit(r, "error") /\ gen' = [gen EXCEPT ![r] = "ended"]
    /\ UNCHANGED <<notMonitor, monitor_task, monitoring_active, story_generation_in_progress, serial_open, mon,
                   call_req, event_count, conn_open, n_requests, n_dropped>>

\* stories.py:838-997: text and audio are generated and piped to the player,
\* the story is persisted and the complete event emitted (or an error event).
GenSave(r) ==
    /\ gen[r] = "generating"
    /\ \/ Emit(r, "complete")
       \/ Emit(r, "error")
    /\ gen' = [gen EXCEPT ![r] = "playing"]
    /\ UNCHANGED <<notMonitor, monitor_task, monitoring_active, story_generation_in_progress, serial_open, mon,
                   call_req, event_count, conn_open, n_requests, n_dropped>>

\* stories.py:1001-1009: the player has finished; 'Playback complete'.
GenPlaybackDone(r) ==
    /\ gen[r] = "playing"
    /\ Emit(r, "Playback complete")
    /\ gen' = [gen EXCEPT ![r] = "ended"]
    /\ UNCHANGED <<notMonitor, monitor_task, monitoring_active, story_generation_in_progress, serial_open, mon,
                   call_req, event_count, conn_open, n_requests, n_dropped>>

\* stories.py:1011-1041: the caller has closed the stream and the server
\* cancels the generator, which cleans up and ends.
GenCancelled(r) ==
    /\ Running(r) /\ ~conn_open[r]
    /\ gen' = [gen EXCEPT ![r] = "ended"]
    /\ UNCHANGED <<notMonitor, monitor_task, monitoring_active, story_generation_in_progress, serial_open, mon,
                   call_req, event_count, chan, conn_open, n_requests, n_dropped>>

\* esp32.py:163-165: is_monitoring
IsMonitoring == monitor_task # 0 /\ mon[monitor_task] # "ended"

\* main.py:107-111 (startup) and 216-225 (/esp32/start-monitoring): the
\* manager is connected and a task that will run start_esp32_monitor is
\* created and kept in manager.monitor_task.
CreateMonitorTask(t) ==
    /\ ~IsMonitoring
    /\ mon[t] = "idle"
    /\ serial_open' = TRUE
    /\ monitor_task' = t
    /\ UNCHANGED <<notMonitor, monitoring_active, story_generation_in_progress, mon, call_req,
                   event_count, gen, chan, conn_open, n_requests, n_dropped>>

\* endpoints/esp32.py:44-64: /api/esp32/connect succeeds.
Connect ==
    /\ ~serial_open
    /\ serial_open' = TRUE
    /\ UNCHANGED <<notMonitor, monitor_task, monitoring_active, story_generation_in_progress,
                   mon, call_req, event_count, gen, chan, conn_open, n_requests, n_dropped>>

\* endpoints/esp32.py:66-76: /api/esp32/disconnect.
Disconnect ==
    /\ serial_open
    /\ serial_open' = FALSE
    /\ UNCHANGED <<notMonitor, monitor_task, monitoring_active, story_generation_in_progress,
                   mon, call_req, event_count, gen, chan, conn_open, n_requests, n_dropped>>

\* A CancelledError is delivered to task t at its await. A task that has
\* not started ends at once. In the loop or in an accepted call the finally
\* blocks run: process_character_selection clears its flag and leaves the
\* HTTP stream (monitor.py:115-117), monitor_serial disconnects
\* (esp32.py:153-154) and start_esp32_monitor clears _monitoring_active
\* (monitor.py:152-154).
Cancelled(t) ==
    /\ mon' = [mon EXCEPT ![t] = "ended"]
    /\ IF mon[t] = "callback"
       THEN /\ story_generation_in_progress' = FlagAfterReturn
            /\ call_req' = [call_req EXCEPT ![t] = 0]
            /\ event_count' = [event_count EXCEPT ![t] = 0]
            /\ conn_open' = [r \in Requests |->
                                IF r = call_req[t] THEN FALSE ELSE conn_open[r]]
       ELSE UNCHANGED <<story_generation_in_progress, call_req, event_count, conn_open>>
    /\ monitoring_active' = IF mon[t] = "idle" THEN monitoring_active ELSE FALSE

\* main.py:117-127: shutdown cancels the task the manager holds, waits for
\* it and disconnects.
Shutdown ==
    /\ IsMonitoring
    /\ Cancelled(monitor_task)
    /\ monitor_task' = 0
    /\ serial_open' = FALSE
    /\ UNCHANGED <<notMonitor, gen, chan, n_requests, n_dropped>>

MonitorNext ==
    \/ \E t \in MonTasks : StartMonitor(t)
    \/ StopMonitor
    \/ \E t \in MonTasks : LoopExit(t)
    \/ \E t \in MonTasks : Selection(t)
    \/ \E t \in MonTasks : SendRequest(t)
    \/ \E t \in MonTasks : RequestFails(t)
    \/ \E t \in MonTasks : ReadEvent(t)
    \/ \E t \in MonTasks : StreamEnd(t)
    \/ \E t \in MonTasks : StreamRaises(t)
    \/ \E r \in Requests : GenStartPlayer(r)
    \/ \E r \in Requests : GenSave(r)
    \/ \E r \in Requests : GenPlaybackDone(r)
    \/ \E r \in Requests : GenCancelled(r)
    \/ \E t \in MonTasks : CreateMonitorTask(t)
    \/ Connect
    \/ Disconnect
    \/ Shutdown

----------------------------------------------------------------------------
\* Claims about the device-triggered flow.

\* C5: device-triggered generations are serialized. The in-progress flag
\* stays set until the generation and the local playback an accepted
\* selection started have ended, so at most one end-to-end generation is
\* running.
C5_FlagHeldUntilPlaybackEnds ==
    /\ \A r \in Requests : Running(r) => story_generation_in_progress
    /\ Cardinality({r \in Requests : Running(r)}) <= 1

\* C6: drop-if-busy. A selection arriving while the flag is set is ignored:
\* no request is sent, nothing is kept for later, the flag stays set; and no
\* call is accepted while the flag is set.
C6_DropIfBusy ==
    [][/\ (n_dropped' > n_dropped =>
              /\ story_generation_in_progress
              /\ story_generation_in_progress'
              /\ UNCHANGED <<n_requests, gen, chan, conn_open, call_req, mon,
                             event_count>>)
       /\ (story_generation_in_progress =>
              \A t \in MonTasks : mon'[t] = "callback" => mon[t] = "callback")]_vars

\* C6 witness: a selection was ignored while an accepted call is in progress.
C6_Witness ==
    /\ n_dropped >= 1
    /\ story_generation_in_progress
    /\ \E t, u \in MonTasks : mon[t] = "callback" /\ mon[u] = "loop"

\* An accepted call of process_character_selection is in progress.
InAcceptedCall == \E t \in MonTasks : mon[t] = "callback"

\* C28: no permanent lock-out. The step that ends an accepted call (after
\* success, a failed request, a raising stream, a raising conversion or a
\* cancellation) leaves the in-progress flag cleared; the flag is set only
\* while an accepted call is in progress; and a selection is ignored only
\* while an accepted call is in progress, so the selection read after an
\* accepted call has ended is accepted.
C28_NoPermanentLockOut ==
    /\ [](story_generation_in_progress <=> InAcceptedCall)
    /\ [][/\ \A t \in MonTasks :
               (mon[t] = "callback" /\ mon'[t] # "callback") =>
                   ~story_generation_in_progress'
          /\ n_dropped' > n_dropped => InAcceptedCall]_vars

\* C28 witness: a first accepted call has ended and the next selection read
\* has been accepted.
C28_Witness ==
    /\ n_requests >= 1
    /\ \E t \in MonTasks : mon[t] = "callback" /\ call_req[t] = 0
    /\ story_generation_in_progress

\* The tasks inside the while loop of monitor_serial (esp32.py:144-149),
\* waiting between two reads or inside the callback.
RunningLoops == {t \in MonTasks : mon[t] \in {"loop", "callback"}}

\* C29: single monitor loop. At most one serial monitor loop is running, and
\* _monitoring_active is true exactly while a monitor loop is running.
C29_SingleMonitorLoop ==
    /\ Cardinality(RunningLoops) <= 1
    /\ monitoring_active <=> RunningLoops # {}

\* Two monitor loops are never running side by side.
AtMostOneLoop == Cardinality(RunningLoops) <= 1

----------------------------------------------------------------------------
\* The blocking /generate path: generate_story of stories.py, the
\* module-level StoryGenerator and the generation providers of app/llm.
\* The handler has no await between its first and last statement, so
\* requests are served one at a time.

\* The variable is absent from the environment / the field is absent from the request.
Unset == "<unset>"

\* Values a request's llm_provider field (and so the variable) may hold.
ProviderNames == {"openai", "OpenAI", "claude", "azure", "local", "bogus"}

\* str.lower() on those values ("" for the default of os.environ.get(..., "")).
Lower(name) == IF name = "OpenAI" THEN "openai" ELSE name

\* LLMFactory.get_provider: the class chosen for a name, or the ValueError.
ProviderClass(name) ==
    CASE Lower(name) = "openai" -> "OpenAIProvider"
      [] Lower(name) = "claude" -> "ClaudeProvider"
      [] Lower(name) = "azure" -> "AzureOpenAIProvider"
      [] Lower(name) = "local" -> "LocalOpenAIProvider"
      [] OTHER -> "ValueError"

\* LLMFactory.get_provider(name) returns a provider (no exception).
Constructs(name) == ProviderClass(name) # "ValueError"

\* os.environ.get("LLM_PROVIDER", default)
EnvGet(default) == IF LLM_PROVIDER = Unset THEN default ELSE LLM_PROVIDER

\* StoryGenerator.__init__: the ValueError of an unsupported name falls back
\* to "openai".
InitProvider ==
    IF Constructs(EnvGet("openai"))
    THEN ProviderClass(EnvGet("openai"))
    ELSE ProviderClass("openai")

\* StoryGenerator.reset_llm_provider: the provider after the call. Any
\* exception is caught and the provider stays what it was.
reset_llm_provider ==
    IF Constructs(EnvGet("openai"))
    THEN ProviderClass(EnvGet("openai"))
    ELSE llm_provider

\* <Provider>.generate_story: what the call gives for a backend call that
\* succeeds or fails. LocalOpenAIProvider catches the failure and returns
\* its apology text as a normal result.
ProviderResult(class, backend_ok) ==
    IF backend_ok THEN "story"
    ELSE IF class = "LocalOpenAIProvider" THEN "apology"
    ELSE "raise"

\* One call of StoryGenerator.generate_story: reset the provider, call it,
\* persist what it returned; every exception is re-raised.
GeneratorAttempt(backend_ok, db_ok) ==
    LET class == reset_llm_provider
        content == ProviderResult(class, backend_ok)
    IN [env |-> LLM_PROVIDER,
        name |-> EnvGet("openai"),
        constructed |-> Constructs(EnvGet("openai")),
        provider |-> class,
        backend_ok |-> backend_ok,
        content |-> content,
        outcome |-> IF content = "raise" \/ ~db_ok THEN "raise" ELSE "returned"]

\* crud.create_story in StoryGenerator.generate_story
Persisted(a) ==
    IF a.outcome = "returned"
    THEN Append(db_stories, [story_text |-> a.content, provider |-> a.provider,
                             audio_path |-> "null"])
    ELSE db_stories

\* StoryGenerator.generate_audio: the synthesis provider cannot be
\* constructed, its generate_audio raises, returns None or returns a path.
AudioOutcomes == {"construct_fails", "raises", "returns_null", "returns_path"}

\* generate_audio raises to the handler.
AudioRaises(audio) == audio \in {"construct_fails", "raises"}

\* story_generator.py:307-310: a path that was returned is stored in the
\* story record (crud.update_story_audio_path).
StoredAudio(recs, audio) ==
    IF audio = "returns_path"
    THEN [recs EXCEPT ![Len(recs)].audio_path = "path"]
    ELSE recs

\* Mutant: the handler has no try block around generate_audio.
AudioErrorCaught_Not == FALSE

\* stories.py:165-170 and 194-199: except Exception around generate_audio.
AudioErrorCaught == TRUE

\* The response of a request whose story was generated, after the audio step.
ResponseAfterAudio(audio) ==
    IF AudioRaises(audio) /\ ~AudioErrorCaught THEN "http500" ELSE "story"

\* story["audio_path"] of the returned story (stories.py:167).
ReturnedAudioPath(audio) == IF audio = "returns_path" THEN "path" ELSE "null"

\* Mutant: the handler retries whatever the variable holds.
AlreadyOpenAI_Never == FALSE

\* stories.py:178, negated: the variable already names openai.
AlreadyOpenAI == Lower(EnvGet("")) = "openai"

\* Values a request's tts_provider and voice_id fields may hold.
SynthesisNames == {"piper"}
VoiceIds == {"voice_a"}

\* The three fields when none is given.
NoFields == [llm_provider |-> Unset, tts_provider |-> Unset, voice_id |-> Unset]

\* crud.get_preferences returns None: there is no preferences row.
NoStored == [llm_provider |-> "none", tts_provider |-> "none", voice_id |-> "none"]

\* os.environ.get("TTS_PROVIDER", default)
TtsEnvGet(default) == IF TTS_PROVIDER = Unset THEN default ELSE TTS_PROVIDER

\* No audio was generated for the current request.
NoAudio == [provider |-> "none", voice_id |-> "none"]

\* story_generator.py:274-283: the provider name and the voice that
\* generate_audio hands to TTSFactory.get_provider.
AudioConfig == [provider |-> TtsEnvGet("elevenlabs"), voice_id |-> TTS_VOICE_ID]

\* stories.py:75-106: preferences that do not exist yet are created from the
\* request, unless saving them fails.
SavedPreferences(request, saved) ==
    IF stored_preferences = NoStored /\ saved THEN request ELSE stored_preferences

GenInit ==
    /\ LLM_PROVIDER \in ProviderNames \cup {Unset}
    /\ TTS_PROVIDER \in SynthesisNames \cup {Unset}
    /\ TTS_VOICE_ID \in VoiceIds \cup {Unset}
    /\ startup_environ = [LLM_PROVIDER |-> LLM_PROVIDER, TTS_PROVIDER |-> TTS_PROVIDER,
                          TTS_VOICE_ID |-> TTS_VOICE_ID]
    /\ story_request = NoFields
    /\ stored_preferences \in {NoStored, NoFields}
    /\ audio_used = NoAudio
    /\ llm_provider = InitProvider
    /\ gpc = "idle"
    /\ attempt_log = <<>>
    /\ response = "none"
    /\ db_stories = <<>>
    /\ n_gen_requests = 0
    /\ audio_result = "none"
    /\ response_audio_path = "null"

\* generate_story (endpoint) up to its first call of the generator: the
\* request's llm_provider, when given, is written to the environment.
GenRequest ==
    /\ gpc = "idle"
    /\ n_gen_requests < MaxGenRequests
    /\ \E name \in ProviderNames \cup {Unset}, tts \in SynthesisNames \cup {Unset},
          voice \in VoiceIds \cup {Unset}, saved \in BOOLEAN :
          LET request == [llm_provider |-> name, tts_provider |-> tts, voice_id |-> voice] IN
          /\ story_request' = request
          /\ LLM_PROVIDER' = IF name = Unset THEN LLM_PROVIDER ELSE name
          /\ TTS_PROVIDER' = IF tts = Unset THEN TTS_PROVIDER ELSE tts
          /\ TTS_VOICE_ID' = IF voice = Unset THEN TTS_VOICE_ID ELSE voice
          /\ stored_preferences' = SavedPreferences(request, saved)
    /\ audio_used' = NoAudio
    /\ gpc' = "first"
    /\ attempt_log' = <<>>
    /\ response' = "none"
    /\ n_gen_requests' = n_gen_requests + 1
    /\ audio_result' = "none"
    /\ response_audio_path' = "null"
    /\ UNCHANGED <<notGen, llm_provider, db_stories, startup_environ>>

\* stories.py:163-172 and 192-201: the story was generated; audio is
\* generated for it and the story is returned.
AudioStep(a) ==
    \E audio \in AudioOutcomes :
        /\ audio_result' = audio
        /\ db_stories' = StoredAudio(Persisted(a), audio)
        /\ response' = ResponseAfterAudio(audio)
        /\ response_audio_path' = ReturnedAudioPath(audio)
        /\ audio_used' = AudioConfig

\* The first call of story_generator.generate_story and what the handler
\* does with its result: return the story (with audio when it can be made),
\* or on any exception retry with LLM_PROVIDER = "openai" unless the
\* variable already names openai.
FirstAttempt ==
    /\ gpc = "first"
    /\ \E backend_ok, db_ok \in BOOLEAN :
          LET a == GeneratorAttempt(backend_ok, db_ok) IN
          /\ llm_provider' = a.provider
          /\ attempt_log' = <<a>>
          /\ IF a.outcome = "returned"
             THEN /\ AudioStep(a) /\ gpc' = "idle"
                  /\ UNCHANGED LLM_PROVIDER
             ELSE IF ~AlreadyOpenAI
             THEN /\ LLM_PROVIDER' = "openai" /\ gpc' = "retry"
                  /\ UNCHANGED <<response, db_stories, audio_result, response_audio_path,
                                 audio_used>>
             ELSE /\ response' = "http500" /\ gpc' = "idle"
                  /\ UNCHANGED <<LLM_PROVIDER, db_stories, audio_result, response_audio_path,
                                 audio_used>>
    /\ UNCHANGED <<notGen, n_gen_requests, TTS_PROVIDER, TTS_VOICE_ID, startup_environ,
                   story_request, stored_preferences>>

\* The second call, inside the except block: its story is returned, its
\* exception reaches the outer handler and becomes the HTTP 500.
FallbackAttempt ==
    /\ gpc = "retry"
    /\ \E backend_ok, db_ok \in BOOLEAN :
          LET a == GeneratorAttempt(backend_ok, db_ok) IN
          /\ llm_provider' = a.provider
          /\ attempt_log' = Append(attempt_log, a)
          /\ IF a.outcome = "returned"
             THEN AudioStep(a)
             ELSE /\ response' = "http500"
                  /\ UNCHANGED <<db_stories, audio_result, response_audio_path, audio_used>>
    /\ gpc' = "idle"
    /\ UNCHANGED <<notGen, LLM_PROVIDER, n_gen_requests, TTS_PROVIDER, TTS_VOICE_ID,
                   startup_environ, story_request, stored_preferences>>

GenNext ==
    \/ GenRequest
    \/ FirstAttempt
    \/ FallbackAttempt

----------------------------------------------------------------------------
\* Claims about the blocking /generate path.

\* C8: construction fallback. Every call of the generator is
\* served by the provider its name asks for or, when that provider cannot
\* be constructed, by the baseline OpenAIProvider.
C8_ConstructionFallback ==
    \A i \in 1..Len(attempt_log) :
        attempt_log[i].provider =
            IF attempt_log[i].constructed
            THEN ProviderClass(attempt_log[i].name)
            ELSE "OpenAIProvider"

\* The request has been answered.
Answered == gpc = "idle" /\ response # "none"

\* C9 as claimed: a request whose generation fails makes exactly one
\* fallback attempt.
C9_FailureHasOneFallback ==
    (Answered /\ attempt_log[1].outcome = "raise") => Len(attempt_log) = 2

\* C9 as amended: a failed first attempt is followed by exactly one further
\* attempt, made with LLM_PROVIDER set to "openai", unless LLM_PROVIDER
\* already names openai (in any letter case), in which case the failure is
\* surfaced at once. The request fails exactly when its last attempt
\* failed, and no request makes more than two attempts.
C9_SingleFallbackUnlessOpenAI ==
    /\ Len(attempt_log) <= 2
    /\ Answered =>
          /\ Len(attempt_log) \in {1, 2}
          /\ (Len(attempt_log) = 2) <=>
                (/\ attempt_log[1].outcome = "raise"
                 /\ Lower(attempt_log[1].env) # "openai")
          /\ Len(attempt_log) = 2 => attempt_log[2].env = "openai"
          /\ (response = "http500") <=>
                (attempt_log[Len(attempt_log)].outcome = "raise")

\* C9 witness: a request answered with a failure after its fallback attempt
\* failed too.
C9_Witness ==
    /\ Answered /\ response = "http500"
    /\ Len(attempt_log) = 2
    /\ attempt_log[1].env = "claude"

\* C10: blocking generation failures propagate. A failed backend call makes generate_story raise, for
\* every provider class, and a failed generation is never persisted.
C10_FailuresPropagate ==
    /\ \A i \in 1..Len(attempt_log) :
          ~attempt_log[i].backend_ok => attempt_log[i].outcome = "raise"
    /\ \A k \in 1..Len(db_stories) : db_stories[k].story_text = "story"

\* C12: audio is best-effort on the blocking path. When the text of a
\* /generate request was generated and its audio synthesis failed, the
\* request still succeeds, the returned story has no audio_path, and the
\* story record is still stored.
C12_AudioBestEffort ==
    (Answered /\ audio_result \in {"construct_fails", "raises", "returns_null"}) =>
        /\ response = "story"
        /\ response_audio_path = "null"
        /\ Len(db_stories) >= 1
        /\ db_stories[Len(db_stories)].story_text =
               attempt_log[Len(attempt_log)].content
        /\ db_stories[Len(db_stories)].audio_path = "null"

\* C12 witness: a story was returned after generate_audio raised.
C12_Witness ==
    /\ Answered /\ response = "story"
    /\ audio_result = "raises"
    /\ Len(db_stories) >= 1

\* The process's own value of a variable: what it held at startup, else
\* the default the code gives to os.environ.get.
StartupValue(variable, default) ==
    IF startup_environ[variable] = Unset THEN default ELSE startup_environ[variable]

\* The values a field of the current request may be served with: the
\* request's own value when it gives one, else the stored preference or the
\* process's own value.
Determined(field, own) ==
    IF story_request[field] # Unset
    THEN {story_request[field]}
    ELSE ({stored_preferences[field]} \ {Unset, NoStored[field]}) \cup {own}

\* C30: requests do not leak configuration into each other. The generation
\* provider, the synthesis provider and the voice a request is served with
\* are its own fields, or for a field it leaves unset the stored preference
\* or the default, never a value an earlier request or fallback left in
\* the environment.
C30_NoConfigLeakage ==
    /\ attempt_log # <<>> =>
          attempt_log[1].name \in Determined("llm_provider", StartupValue("LLM_PROVIDER", "openai"))
    /\ audio_used # NoAudio =>
          /\ audio_used.provider \in
                Determined("tts_provider", StartupValue("TTS_PROVIDER", "elevenlabs"))
          /\ audio_used.voice_id \in
                Determined("voice_id", StartupValue("TTS_VOICE_ID", Unset))

----------------------------------------------------------------------------
\* generate_story_streaming of the four generation providers: an async
\* generator around one streaming backend call.

ProviderClasses ==
    {"OpenAIProvider", "ClaudeProvider", "AzureOpenAIProvider", "LocalOpenAIProvider"}

\* What a backend chunk carries: some text, or no content.
BackendChunks == Deltas \cup {<<>>}

\* The chunk is yielded: the OpenAI-style providers skip chunks without
\* content, ClaudeProvider yields every item of text_stream.
Yields(class, chunk) == class = "ClaudeProvider" \/ chunk # <<>>

\* Mutant: the exception of the backend leaves the generator.
OnBackendFailure_Raises(class) == "raised"

\* The except block of generate_story_streaming: each class logs the
\* exception and falls off the end of the generator.
OnBackendFailure(class) ==
    CASE class = "OpenAIProvider" -> "ended"
      [] class = "ClaudeProvider" -> "ended"
      [] class = "AzureOpenAIProvider" -> "ended"
      [] class = "LocalOpenAIProvider" -> "ended"

TextInit ==
    /\ text_provider \in ProviderClasses
    /\ text_gen = "created"
    /\ yielded = <<>>
    /\ received = <<>>
    /\ backend_failed = FALSE
    /\ logged_error = FALSE
    /\ n_backend_chunks = 0

\* The consumer's first __anext__: the prompt is built and the streaming
\* backend call is made.
TextStart ==
    /\ text_gen = "created"
    /\ text_gen' = "streaming"
    /\ UNCHANGED <<notText, text_provider, yielded, received, backend_failed, logged_error,
                   n_backend_chunks>>

\* The backend produces a chunk; the generator yields its content to the
\* consumer or skips it.
TextChunk ==
    /\ text_gen = "streaming" /\ n_backend_chunks < MaxBackendChunks
    /\ n_backend_chunks' = n_backend_chunks + 1
    /\ \E chunk \in BackendChunks :
          IF Yields(text_provider, chunk)
          THEN /\ yielded' = Append(yielded, chunk)
               /\ received' = Append(received, chunk)
          ELSE UNCHANGED <<yielded, received>>
    /\ UNCHANGED <<notText, text_provider, text_gen, backend_failed, logged_error>>

\* The backend's response stream is exhausted.
TextEnd ==
    /\ text_gen = "streaming"
    /\ text_gen' = "ended"
    /\ UNCHANGED <<notText, text_provider, yielded, received, backend_failed, logged_error,
                   n_backend_chunks>>

\* The backend call or the iteration of its response raises.
TextBackendFails ==
    /\ text_gen = "streaming"
    /\ backend_failed' = TRUE
    /\ logged_error' = TRUE
    /\ text_gen' = OnBackendFailure(text_provider)
    /\ UNCHANGED <<notText, text_provider, yielded, received, n_backend_chunks>>

TextNext ==
    \/ TextStart
    \/ TextChunk
    \/ TextEnd
    \/ TextBackendFails

IsPrefix(p, q) == Len(p) <= Len(q) /\ \A i \in 1..Len(p) : p[i] = q[i]

----------------------------------------------------------------------------
\* StorySeedBank: the scenario cache. Every generation provider constructs
\* its own bank (llm/base.py) on the same cache file.

Banks == 1..NumBanks

\* (theme, setting) pairs asked for. The first two have the same cache key.
Pairs == {<<"a_b", "c">>, <<"a", "b_c">>, <<"a", "c">>}

\* story_seed_bank.py:374
CacheKey(theme, setting) == theme \o "_" \o setting

EmptyDict == [k \in {} |-> <<>>]

Put(d, k, v) == [x \in DOMAIN d \cup {k} |-> IF x = k THEN v ELSE d[x]]

\* One generated seed: its problem text is built from the scenarios of the
\* theme and the activities of the setting; pass and i stand for the random choices.
NewSeed(theme, setting, pass, i) ==
    [problem |-> <<theme, setting, pass, i>>,
     activity |-> setting,
     emotion |-> "excited",
     resolution |-> "teamwork"]

\* story_seed_bank.py:396-424: the pool one generate pass builds.
NewPool(theme, setting, pass) ==
    [i \in 1..PoolSize |-> NewSeed(theme, setting, pass, i)]

AbsentFile == [state |-> "absent", data |-> EmptyDict]
DamagedFile == [state |-> "damaged", data |-> EmptyDict]
JsonFile(d) == [state |-> "json", data |-> d]

\* What json.load gives for a damaged file under the mutant below.
DamagedDict == [k \in {CacheKey(p[1], p[2]) : p \in Pairs} |-> <<[problem |-> "?"]>>]

\* Mutant: load_cache keeps what it could read of a damaged file.
LoadCache_KeepsDamaged(file) ==
    IF file.state = "json" THEN file.data
    ELSE IF file.state = "damaged" THEN DamagedDict
    ELSE EmptyDict

\* load_cache: the whole file, or {} when it is absent or cannot be parsed.
LoadCache(file) == IF file.state = "json" THEN file.data ELSE EmptyDict

\* Mutant: every call regenerates.
CacheHit_Never(d, key) == FALSE

\* story_seed_bank.py:377: the key is cached with a non-empty pool.
CacheHit(d, key) == key \in DOMAIN d /\ d[key] # <<>>

\* The pool a dict holds under a key (<<>> when it holds none).
PoolOf(d, key) == IF key \in DOMAIN d THEN d[key] ELSE <<>>

\* Mutant: the pass stops one seed short.
GeneratedPool_Short(theme, setting, pass) == Front(NewPool(theme, setting, pass))

\* story_seed_bank.py:398-427: the pool stored under the key on a miss.
GeneratedPool(theme, setting, pass) == NewPool(theme, setting, pass)

\* random.choice(pool): the positions the model lets it pick, the first and
\* the last of the pool.
Picks(pool) == {i \in {1, Len(pool)} : i \in 1..Len(pool)}

NoCall == [theme |-> "", setting |-> "", hit |-> FALSE, pool_before |-> <<>>,
           pool |-> <<>>, save |-> "none", seed |-> <<>>]

SeedInit ==
    /\ cache_file = AbsentFile
    /\ cached_scenarios = [b \in Banks |-> EmptyDict]
    /\ bank_pc = [b \in Banks |-> "unbuilt"]
    /\ cur_call = [b \in Banks |-> NoCall]
    /\ dirty = [b \in Banks |-> FALSE]
    /\ n_passes = 0
    /\ n_seed_calls = 0

\* StorySeedBank.__init__: load_cache reads the whole file.
NewBank(b) ==
    /\ bank_pc[b] = "unbuilt"
    /\ cached_scenarios' = [cached_scenarios EXCEPT ![b] = LoadCache(cache_file)]
    /\ bank_pc' = [bank_pc EXCEPT ![b] = "ready"]
    /\ UNCHANGED <<notSeed, cache_file, cur_call, dirty, n_passes, n_seed_calls>>

\* get_random_story_seed up to save_cache: on a hit a member of the cached
\* pool is returned; on a miss a pool is generated and stored under the key.
GetSeed(b) ==
    /\ bank_pc[b] = "ready" /\ n_seed_calls < MaxSeedCalls
    /\ n_seed_calls' = n_seed_calls + 1
    /\ \E p \in Pairs :
         LET key == CacheKey(p[1], p[2])
             d == cached_scenarios[b]
             call == [NoCall EXCEPT !.theme = p[1], !.setting = p[2],
                                    !.pool_before = PoolOf(d, key)]
         IN IF CacheHit(d, key)
            THEN /\ \E i \in Picks(d[key]) :
                       cur_call' = [cur_call EXCEPT ![b] =
                                      [call EXCEPT !.hit = TRUE, !.pool = d[key],
                                                   !.seed = <<d[key][i]>>]]
                 /\ UNCHANGED <<cached_scenarios, bank_pc, n_passes>>
            ELSE LET pool == GeneratedPool(p[1], p[2], n_passes + 1) IN
                 /\ cur_call' = [cur_call EXCEPT ![b] = [call EXCEPT !.pool = pool]]
                 /\ cached_scenarios' = [cached_scenarios EXCEPT ![b] = Put(d, key, pool)]
                 /\ n_passes' = n_passes + 1
                 /\ bank_pc' = [bank_pc EXCEPT ![b] = "save"]
    /\ UNCHANGED <<notSeed, cache_file, dirty>>

\* The rest of the call when nothing (more) is written: a member of the new
\* pool is returned.
ReturnSeed(b, save) ==
    /\ \E i \in Picks(cur_call[b].pool) :
          cur_call' = [cur_call EXCEPT ![b].save = save,
                                       ![b].seed = <<cur_call[b].pool[i]>>]
    /\ bank_pc' = [bank_pc EXCEPT ![b] = "ready"]

\* save_cache opens the file for writing, which empties it; or the open
\* raises, which is logged, and the call returns.
SaveOpen(b) ==
    /\ bank_pc[b] = "save"
    /\ \/ /\ cache_file' = DamagedFile
          /\ bank_pc' = [bank_pc EXCEPT ![b] = "writing"]
          /\ dirty' = [dirty EXCEPT ![b] = FALSE]
          /\ UNCHANGED cur_call
       \/ /\ ReturnSeed(b, "failed")
          /\ UNCHANGED <<cache_file, dirty>>
    /\ UNCHANGED <<notSeed, cached_scenarios, n_passes, n_seed_calls>>

\* json.dump writes the bank's whole dict and the file is closed. A writer
\* that had the file open together with another writer may leave a mix of
\* the two texts. Then the call returns a member of the new pool.
SaveWrite(b) ==
    /\ bank_pc[b] = "writing"
    /\ \/ cache_file' = JsonFile(cached_scenarios[b])
       \/ /\ dirty[b] \/ \E c \in Banks \ {b} : bank_pc[c] = "writing"
          /\ cache_file' = DamagedFile
    /\ dirty' = [c \in Banks |-> IF c # b /\ bank_pc[c] = "writing" THEN TRUE ELSE dirty[c]]
    /\ ReturnSeed(b, "written")
    /\ UNCHANGED <<notSeed, cached_scenarios, n_passes, n_seed_calls>>

SeedNext ==
    \/ \E b \in Banks : NewBank(b)
    \/ \E b \in Banks : GetSeed(b)
    \/ \E b \in Banks : SaveOpen(b)
    \/ \E b \in Banks : SaveWrite(b)

----------------------------------------------------------------------------
\* Claims about the scenario cache.

Range(f) == {f[i] : i \in DOMAIN f}

CallKey(c) == CacheKey(c.theme, c.setting)

\* The call of bank b has returned.
Returned(b) == cur_call[b].seed # <<>>

C14_HitFromCachedPool ==
    \A b \in Banks :
        cur_call[b].pool_before # <<>> =>
            /\ cur_call[b].hit
            /\ Returned(b) /\ cur_call[b].seed[1] \in Range(cur_call[b].pool_before)
            /\ cur_call[b].save = "none"
            /\ bank_pc[b] = "ready"
            /\ PoolOf(cached_scenarios[b], CallKey(cur_call[b])) = cur_call[b].pool_before

C14_NoSecondPass ==
    /\ n_passes' # n_passes =>
          \E b \in Banks :
              /\ bank_pc[b] = "ready" /\ bank_pc'[b] = "save"
              /\ PoolOf(cached_scenarios[b], CallKey(cur_call'[b])) = <<>>
    /\ \A b \in Banks :
          bank_pc[b] = "ready" /\ bank_pc'[b] = "ready" =>
              /\ cached_scenarios'[b] = cached_scenarios[b]
              /\ cache_file' = cache_file \/ \E c \in Banks : bank_pc[c] # "ready"

\* C14: cache idempotence. A call for a pair whose key the bank already
\* holds with a non-empty pool returns a member of that pool, makes no
\* generate pass and no cache write, and leaves the pool unchanged; a
\* generate pass is made only for a key the bank holds no pool for.
C14_CacheIdempotence == []C14_HitFromCachedPool /\ [][C14_NoSecondPass]_vars

\* C14 witness: a second call of the same bank for the same pair, served
\* from the pool its first call generated and persisted.
C14_Witness ==
    \E b \in Banks :
        /\ cur_call[b].hit /\ n_seed_calls = 2 /\ n_passes = 1
        /\ cur_call[b].pool_before = NewPool(cur_call[b].theme, cur_call[b].setting, 1)
        /\ cache_file.state = "json"

\* C15: cache-first generation. A call that missed has generated a pool of
\* exactly 10 seeds, holds all of them under the key, has called save_cache
\* before returning and returns one of the 10; a call that hit returns a
\* member of the stored pool. Every stored pool has exactly 10 entries, and
\* a write that completes undisturbed leaves the bank's whole cache in the
\* file.
C15_CallOutcome ==
    /\ \A b \in Banks :
          Returned(b) =>
              IF cur_call[b].hit
              THEN cur_call[b].seed[1] \in Range(cur_call[b].pool_before)
              ELSE /\ Len(cur_call[b].pool) = PoolSize
                   /\ PoolOf(cached_scenarios[b], CallKey(cur_call[b])) = cur_call[b].pool
                   /\ cur_call[b].seed[1] \in Range(cur_call[b].pool)
                   /\ cur_call[b].save \in {"written", "failed"}
    /\ \A b \in Banks : \A k \in DOMAIN cached_scenarios[b] :
          Len(cached_scenarios[b][k]) = PoolSize
    /\ \A k \in DOMAIN cache_file.data : Len(cache_file.data[k]) = PoolSize

C15_Persisted ==
    \A b \in Banks :
        (/\ bank_pc[b] = "writing" /\ bank_pc'[b] = "ready"
         /\ ~dirty[b] /\ \A c \in Banks \ {b} : bank_pc[c] # "writing") =>
            cache_file' = JsonFile(cached_scenarios[b])

C15_CacheFirst == []C15_CallOutcome /\ [][C15_Persisted]_vars

\* C15 witness: a call that missed has returned after its pool was written.
C15_Witness ==
    \E b \in Banks :
        /\ Returned(b) /\ ~cur_call[b].hit /\ cur_call[b].save = "written"
        /\ cache_file = JsonFile(cached_scenarios[b])
        /\ CallKey(cur_call[b]) \in DOMAIN cache_file.data

WellFormed(seed) == DOMAIN seed = {"problem", "activity", "emotion", "resolution"}

WholePool(pool, key) ==
    /\ Len(pool) = PoolSize
    /\ \A i \in 1..Len(pool) :
          /\ WellFormed(pool[i])
          /\ CacheKey(pool[i].problem[1], pool[i].problem[2]) = key
          /\ pool[i].problem[3] = pool[1].problem[3]

----------------------------------------------------------------------------
\* The synthesis providers (app/tts): TTSFactory.get_provider, the blocking
\* generate_audio and the incremental generate_audio_streaming.

\* The four operations TTSProvider declares with @abstractmethod.
AbstractMethods ==
    {"generate_audio", "generate_audio_streaming", "get_available_voices", "get_service_info"}

TtsClasses ==
    {"ElevenLabsProvider", "NoneProvider", "AmazonPollyProvider", "PiperProvider",
     "KokorosProvider"}

\* The provider operations each class defines.
Methods(class) ==
    CASE class = "ElevenLabsProvider" -> AbstractMethods
      [] class = "PiperProvider" -> AbstractMethods
      [] class = "KokorosProvider" -> AbstractMethods
      [] class = "NoneProvider" ->
            {"generate_audio", "get_available_voices", "get_service_info"}
      [] class = "AmazonPollyProvider" ->
            {"generate_audio", "get_available_voices", "get_service_info"}

\* Names a caller may give to get_provider.
RequestedNames ==
    {"elevenlabs", "none", "amazon", "amazon_polly", "amazon-polly", "polly", "piper",
     "Piper", "kokoros", "espeak"}

\* provider_name.lower() on the requested names.
LowerName(name) == IF name = "Piper" THEN "piper" ELSE name

\* The if/elif chain of get_provider: the class a name selects.
SelectedClass(name) ==
    CASE LowerName(name) = "elevenlabs" -> "ElevenLabsProvider"
      [] LowerName(name) = "none" -> "NoneProvider"
      [] LowerName(name) \in {"amazon", "amazon_polly", "amazon-polly", "polly"} ->
            "AmazonPollyProvider"
      [] LowerName(name) = "piper" -> "PiperProvider"
      [] LowerName(name) = "kokoros" -> "KokorosProvider"
      [] OTHER -> "ValueError"

\* Names for which get_provider has a branch.
SelectableNames == {n \in RequestedNames : SelectedClass(n) \in TtsClasses}

\* Calling a class: a subclass of the ABC that leaves an abstract method
\* undefined raises TypeError before __init__ runs; KokorosProvider.__init__
\* raises FileNotFoundError when its model files are absent; the other
\* constructors end normally.
Instantiate(class, model_files) ==
    IF ~(AbstractMethods \subseteq Methods(class)) THEN "TypeError"
    ELSE IF class = "KokorosProvider" /\ ~model_files THEN "FileNotFoundError"
    ELSE class

Construct(name, model_files) ==
    IF SelectedClass(name) \in TtsClasses
    THEN Instantiate(SelectedClass(name), model_files)
    ELSE "ValueError"

\* Classes using the friendly-filename policy with a numeric suffix.
FriendlyClasses == {"ElevenLabsProvider", "NoneProvider", "AmazonPollyProvider"}

\* ---- file names ----
\* A string is a sequence of characters; the extensions are one symbol each.
Mp3 == ".mp3"
Wav == ".wav"
DigitChars == <<"0", "1", "2", "3", "4", "5", "6", "7", "8", "9">>
IsDigit(c) == \E v \in DOMAIN DigitChars : DigitChars[v] = c
DigitValue(c) == (CHOOSE v \in DOMAIN DigitChars : DigitChars[v] = c) - 1

\* str(n) and int(digits).
RECURSIVE ToStr(_)
ToStr(n) ==
    IF n < Len(DigitChars) THEN <<DigitChars[n + 1]>>
    ELSE ToStr(n \div Len(DigitChars)) \o <<DigitChars[(n % Len(DigitChars)) + 1]>>

RECURSIVE ToInt(_)
ToInt(d) ==
    IF d = <<>> THEN 0
    ELSE Len(DigitChars) * ToInt(SubSeq(d, 1, Len(d) - 1)) + DigitValue(d[Len(d)])

MaxOf(S) == CHOOSE x \in S : \A y \in S : y <= x

\* re.sub(r'[^\w\s-]', '', s): letters, digits, underscore, whitespace and
\* the hyphen stay.
RemoveSpecial(s) == SelectSeq(s, LAMBDA c : c # "!")

\* s.strip()
RECURSIVE Strip(_)
Strip(s) ==
    IF s = <<>> THEN s
    ELSE IF Head(s) = " " THEN Strip(Tail(s))
    ELSE IF s[Len(s)] = " " THEN Strip(SubSeq(s, 1, Len(s) - 1))
    ELSE s

\* s.lower()
LowerChars(s) == [i \in DOMAIN s |-> IF s[i] = "B" THEN "b" ELSE s[i]]

\* re.sub(r'\s+', '-', s): every run of whitespace becomes one hyphen.
RECURSIVE Hyphenate(_)
Hyphenate(s) ==
    IF s = <<>> THEN s
    ELSE IF Head(s) # " " THEN <<Head(s)>> \o Hyphenate(Tail(s))
    ELSE IF Len(s) > 1 /\ s[2] = " " THEN Hyphenate(Tail(s))
    ELSE <<"-">> \o Hyphenate(Tail(s))

Sanitize(s) == Hyphenate(LowerChars(Strip(RemoveSpecial(s))))

\* base_filename = f"{universe}-{title}"
BaseFilename(universe, title) == Sanitize(universe) \o <<"-">> \o Sanitize(title)

\* glob.glob(f"{base_filename}*.mp3") over the output directory.
GlobMatch(base, file) ==
    /\ Len(file) > Len(base)
    /\ IsPrefix(base, file)
    /\ file[Len(file)] = Mp3

\* re.search(rf"{re.escape(base_filename)}-(\d+)\.mp3$", file): the positions
\* at which the pattern matches up to the end of the name.
MatchStarts(base, file) ==
    {i \in 1..Len(file) :
        LET tail == SubSeq(file, i, Len(file)) IN
        /\ Len(tail) >= Len(base) + 3
        /\ IsPrefix(base \o <<"-">>, tail)
        /\ tail[Len(tail)] = Mp3
        /\ \A k \in (Len(base) + 2)..(Len(tail) - 1) : IsDigit(tail[k])}

\* int(match.group(1)) of the leftmost match.
SuffixNumber(base, file) ==
    LET i == CHOOSE j \in MatchStarts(base, file) : \A k \in MatchStarts(base, file) : j <= k
    IN  ToInt(SubSeq(file, i + Len(base) + 1, Len(file) - 1))

\* _create_friendly_filename of ElevenLabsProvider, AmazonPollyProvider and
\* NoneProvider (the three bodies are the same).
CreateFriendlyFilename(dir, universe, title) ==
    LET base == BaseFilename(universe, title)
        existing_files == {f \in dir : GlobMatch(base, f)}
        nums == {SuffixNumber(base, f) : f \in {g \in existing_files : MatchStarts(base, g) # {}}}
        highest_num == MaxOf(nums \cup {0})
    IN  IF existing_files = {} THEN base \o <<Mp3>>
        ELSE base \o <<"-">> \o ToStr(highest_num + 1) \o <<Mp3>>

\* A name built on uuid.uuid4(): one fresh name per call.
UuidName(prefix, ext) == <<prefix>> \o ToStr(n_tts_calls) \o <<ext>>

\* story_info of a call: (universe, title); an empty string takes the uuid branch.
NoInfo == <<<<>>, <<>>>>
StoryInfos ==
    {<<<<"a">>, <<"b">>>>,
     <<<<"a">>, <<"b", "c">>>>,
     <<<<"a">>, <<" ", "B", "!">>>>,
     <<<<"a">>, <<"b", " ", " ", "1">>>>,
     NoInfo}

\* story_info and story_info.get('universe') and story_info.get('title')
HasInfo(info) == info[1] # <<>> /\ info[2] # <<>>

\* ---- calls ----
NoTtsCall ==
    [op |-> "none", base |-> <<>>, name |-> <<>>, ret |-> "none",
     failure |-> "none", at_failure |-> 0]

\* Chunks of a synthesis stream: audio bytes, or the empty bytes b"".
Pcm == "pcm"
EmptyChunk == ""

FailureKinds == {"backend error", "missing model", "executable not found", "child error"}

\* What can go wrong in generate_audio_streaming of a class after n chunks.
\* A missing model or executable shows before the first chunk.
StreamFailures(class, n) ==
    CASE class = "PiperProvider" ->
            (IF n = 0 THEN {"missing model", "executable not found"} ELSE {})
                \cup {"backend error", "child error"}
      [] OTHER -> {"backend error"}

\* What the generator does on a failure: "return" ends the sequence,
\* "yield_empty" yields b"" and then ends it.
OnStreamFailure(class, kind) ==
    CASE class = "ElevenLabsProvider" -> "return"
      [] class = "KokorosProvider" -> "yield_empty"
      [] class = "PiperProvider" /\ kind \in {"missing model", "executable not found"} ->
            "return"
      [] class = "PiperProvider" /\ kind = "child error" -> "return"
      [] class = "PiperProvider" -> "yield_empty"

TtsInit ==
    /\ provider_name = "unset"
    /\ tts_instance = "unset"
    /\ output_dir = {}
    /\ tts_pc = "idle"
    /\ process = "none"
    /\ tts_call = NoTtsCall
    /\ audio_chunks = <<>>
    /\ named = <<>>
    /\ n_tts_calls = 0

\* TTSFactory.get_provider(name).
GetProvider(name, model_files) ==
    /\ tts_pc = "idle"
    /\ provider_name' = name
    /\ tts_instance' = Construct(name, model_files)
    /\ UNCHANGED <<notTts, output_dir, tts_pc, process, tts_call, audio_chunks, named,
                   n_tts_calls>>

CanCall == tts_pc = "idle" /\ n_tts_calls < MaxTtsCalls

\* generate_audio of a class with the friendly-filename policy. The no-op
\* provider has no backend to fail; it touches the file.
FriendlyGenerateAudio(info, ok) ==
    /\ CanCall
    /\ tts_instance \in FriendlyClasses
    /\ tts_instance = "NoneProvider" => ok
    /\ n_tts_calls' = n_tts_calls + 1
    /\ IF ok
       THEN LET filename == IF HasInfo(info)
                            THEN CreateFriendlyFilename(output_dir, info[1], info[2])
                            ELSE UuidName("story_", Mp3)
                base == IF HasInfo(info) THEN BaseFilename(info[1], info[2]) ELSE <<>>
            IN  /\ output_dir' = output_dir \cup {filename}
                /\ named' = IF HasInfo(info)
                            THEN Append(named, [base |-> base, name |-> filename,
                                                existed |-> filename \in output_dir])
                            ELSE named
                /\ tts_call' = [NoTtsCall EXCEPT !.op = "generate_audio", !.base = base,
                                                 !.name = filename, !.ret = "path"]
       ELSE /\ tts_call' = [NoTtsCall EXCEPT !.op = "generate_audio", !.ret = "null"]
            /\ UNCHANGED <<output_dir, named>>
    /\ UNCHANGED <<notTts, provider_name, tts_instance, tts_pc, process, audio_chunks>>

\* PiperProvider.generate_audio up to subprocess.run: the model search, then
\* the child is started and the call waits for it.
PiperGenerateAudio(model_found) ==
    /\ CanCall
    /\ tts_instance = "PiperProvider"
    /\ n_tts_calls' = n_tts_calls + 1
    /\ IF model_found
       THEN /\ tts_call' = [NoTtsCall EXCEPT !.op = "generate_audio",
                                             !.name = UuidName("piper_", Wav),
                                             !.ret = "pending"]
            /\ tts_pc' = "blocked"
            /\ process' = "running"
       ELSE /\ tts_call' = [NoTtsCall EXCEPT !.op = "generate_audio", !.ret = "null"]
            /\ UNCHANGED <<tts_pc, process>>
    /\ UNCHANGED <<notTts, provider_name, tts_instance, output_dir, audio_chunks, named>>

\* The child ends; with exit status 0 it has written the output file.
ChildExits(status) ==
    /\ process = "running"
    /\ process' = IF status = 0 THEN "exited0" ELSE "exited1"
    /\ output_dir' = IF status = 0 THEN output_dir \cup {tts_call.name} ELSE output_dir
    /\ UNCHANGED <<notTts, provider_name, tts_instance, tts_pc, tts_call, audio_chunks,
                   named, n_tts_calls>>

\* The child stops making progress and never ends.
ChildHangs ==
    /\ process = "running"
    /\ process' = "hung"
    /\ UNCHANGED <<notTts, provider_name, tts_instance, output_dir, tts_pc, tts_call,
                   audio_chunks, named, n_tts_calls>>

\* subprocess.run returns once the child has ended: the filename, or None
\* after CalledProcessError (check=True).
PiperReturn ==
    /\ tts_pc = "blocked"
    /\ process \in {"exited0", "exited1"}
    /\ tts_call' = [tts_call EXCEPT !.ret = IF process = "exited0" THEN "path" ELSE "null"]
    /\ tts_pc' = "idle"
    /\ process' = "none"
    /\ UNCHANGED <<notTts, provider_name, tts_instance, output_dir, audio_chunks, named,
                   n_tts_calls>>

\* KokorosProvider.generate_audio: a uuid-named wav file, or None.
KokorosGenerateAudio(ok) ==
    /\ CanCall
    /\ tts_instance = "KokorosProvider"
    /\ n_tts_calls' = n_tts_calls + 1
    /\ IF ok
       THEN /\ output_dir' = output_dir \cup {UuidName("kokoros_onnx_audio_", Wav)}
            /\ tts_call' = [NoTtsCall EXCEPT !.op = "generate_audio",
                                             !.name = UuidName("kokoros_onnx_audio_", Wav),
                                             !.ret = "path"]
       ELSE /\ tts_call' = [NoTtsCall EXCEPT !.op = "generate_audio", !.ret = "null"]
            /\ UNCHANGED output_dir
    /\ UNCHANGED <<notTts, provider_name, tts_instance, tts_pc, process, audio_chunks, named>>

\* A consumer starts iterating generate_audio_streaming.
SynthStart ==
    /\ CanCall
    /\ tts_instance \in TtsClasses
    /\ "generate_audio_streaming" \in Methods(tts_instance)
    /\ n_tts_calls' = n_tts_calls + 1
    /\ tts_pc' = "streaming"
    /\ audio_chunks' = <<>>
    /\ tts_call' = [NoTtsCall EXCEPT !.op = "generate_audio_streaming", !.ret = "pending"]
    /\ UNCHANGED <<notTts, provider_name, tts_instance, output_dir, process, named>>

\* The backend produces audio and the generator yields it.
SynthYield ==
    /\ tts_pc = "streaming"
    /\ Len(audio_chunks) < MaxPcmChunks
    /\ audio_chunks' = Append(audio_chunks, Pcm)
    /\ UNCHANGED <<notTts, provider_name, tts_instance, output_dir, tts_pc, process,
                   tts_call, named, n_tts_calls>>

\* The backend is exhausted: the generator ends.
SynthEnd ==
    /\ tts_pc = "streaming"
    /\ tts_pc' = "idle"
    /\ tts_call' = [tts_call EXCEPT !.ret = "ended"]
    /\ UNCHANGED <<notTts, provider_name, tts_instance, output_dir, process, audio_chunks,
                   named, n_tts_calls>>

\* The synthesis fails: the except clauses of the generator.
SynthFails(kind) ==
    /\ tts_pc = "streaming"
    /\ kind \in StreamFailures(tts_instance, Len(audio_chunks))
    /\ audio_chunks' = IF OnStreamFailure(tts_instance, kind) = "yield_empty"
                       THEN Append(audio_chunks, EmptyChunk)
                       ELSE audio_chunks
    /\ tts_call' = [tts_call EXCEPT !.ret = "ended", !.failure = kind,
                                    !.at_failure = Len(audio_chunks)]
    /\ tts_pc' = "idle"
    /\ UNCHANGED <<notTts, provider_name, tts_instance, output_dir, process, named,
                   n_tts_calls>>

TtsNext ==
    \/ \E name \in RequestedNames, model_files \in BOOLEAN : GetProvider(name, model_files)
    \/ \E info \in StoryInfos, ok \in BOOLEAN : FriendlyGenerateAudio(info, ok)
    \/ \E model_found \in BOOLEAN : PiperGenerateAudio(model_found)
    \/ \E status \in {0, 1} : ChildExits(status)
    \/ ChildHangs
    \/ PiperReturn
    \/ \E ok \in BOOLEAN : KokorosGenerateAudio(ok)
    \/ SynthStart
    \/ SynthYield
    \/ SynthEnd
    \/ \E kind \in FailureKinds : SynthFails(kind)

\* ---- claims about the synthesis providers ----

\* C17: every provider that TTSFactory.get_provider can select is constructed
\* as a provider and offers both capability operations, the blocking
\* generate_audio and the incremental generate_audio_streaming.
C17_SelectableProvidersInterchangeable ==
    provider_name \in SelectableNames =>
        /\ tts_instance # "TypeError"
        /\ tts_instance \in TtsClasses =>
              {"generate_audio", "generate_audio_streaming"} \subseteq Methods(tts_instance)

\* A step of the program that ends the blocking call.
BlockingCallEnds == TtsNext /\ tts_pc = "blocked" /\ tts_pc' = "idle"

\* C18: a blocking Piper generate_audio whose child process hangs does not
\* block for ever: the call can still end (by a timeout surfaced as a failure).
C18_HungChildTimesOut ==
    (tts_pc = "blocked" /\ process = "hung") => ENABLED BlockingCallEnds

\* How many earlier friendly names were made for the same base.
EarlierSameBase(i) == Cardinality({j \in 1..(i - 1) : named[j].base = named[i].base})

\* The friendly-filename policy never returns the name of an existing file.
FriendlyNamesFresh == \A i \in DOMAIN named : ~named[i].existed

\* C19: a friendly filename never names an existing file, and the calls for
\* one story_info get '<base>.mp3' first, then '<base>-1.mp3', '<base>-2.mp3', ...
C19_CollisionAvoidedNames ==
    \A i \in DOMAIN named :
        /\ ~named[i].existed
        /\ named[i].name =
              IF EarlierSameBase(i) = 0 THEN named[i].base \o <<Mp3>>
              ELSE named[i].base \o <<"-">> \o ToStr(EarlierSameBase(i)) \o <<Mp3>>

\* C20: when generate_audio_streaming fails, the provider yields no chunk
\* after the failure and the sequence ends without raising.
C20_NoChunkAfterFailure ==
    (tts_call.op = "generate_audio_streaming" /\ tts_call.failure # "none") =>
        /\ tts_call.ret = "ended"
        /\ Len(audio_chunks) = tts_call.at_failure

----------------------------------------------------------------------------
\* The element randomizer (core/randomizer.py).

\* STORY_SETTINGS["characters"], cut to its first RosterSize names; the
\* configured names are pairwise distinct.
RosterNames == <<"Wesley", "Mom", "Dad", "Chase", "Marshall", "Skye">>
Roster == SubSeq(RosterNames, 1, RosterSize)

\* STORY_SETTINGS["story_length"].
LengthLabels ==
    {"Very Short (2-3 minutes)", "Short (3-5 minutes)", "Medium (5-7 minutes)",
     "Long (7-10 minutes)"}

\* crud.get_story_elements_frequency: counts of the names used in recent
\* stories; a name not used has no entry.
FreqNames == {Roster[1], Roster[2]}
FreqTables == UNION {[D -> 1..MaxFreq] : D \in SUBSET FreqNames}

\* freq_data.get(option, 0)
FreqOf(table, option) == IF option \in DOMAIN table THEN table[option] ELSE 0

\* Exact fractions <<numerator, denominator>>, denominators positive.
RECURSIVE GCD(_, _)
GCD(a, b) == IF b = 0 THEN a ELSE GCD(b, a % b)

\* A fraction in lowest terms.
Reduce(f) == <<f[1] \div GCD(f[1], f[2]), f[2] \div GCD(f[1], f[2])>>

FracAdd(a, b) == Reduce(<<a[1] * b[2] + b[1] * a[2], a[2] * b[2]>>)
FracDiv(a, b) == Reduce(<<a[1] * b[2], a[2] * b[1]>>)
FracLess(a, b) == a[1] * b[2] < b[1] * a[2]
FracEq(a, b) == a[1] * b[2] = b[1] * a[2]

RECURSIVE FracSum(_)
FracSum(ws) == IF ws = <<>> THEN <<0, 1>> ELSE FracAdd(Head(ws), FracSum(Tail(ws)))

\* A weight that grows with the frequency.
Weight_Proportional(freq) == <<freq + 1, 1>>

\* weight = 1.0 / (freq + 1)
Weight(freq) == <<1, freq + 1>>

Weights(options, table) == [i \in DOMAIN options |-> Weight(FreqOf(table, options[i]))]

\* norm_weights = [w / total_weight for w in weights]
NormWeights(options, table) ==
    LET weights == Weights(options, table)
        total_weight == FracSum(weights)
    IN  [i \in DOMAIN options |-> FracDiv(weights[i], total_weight)]

\* One call of _weighted_random_choice(options, "characters") that picked
\* options[k]: a single option is returned by random.choice, without weights.
Choice(options, table, k) ==
    [options |-> options,
     weighted |-> Len(options) > 1,
     norm_weights |-> IF Len(options) > 1 THEN NormWeights(options, table) ELSE <<>>,
     pick |-> options[k]]

\* random.choices draws an option whose weight is positive.
CanPick(options, table, k) ==
    /\ k \in DOMAIN options
    /\ Len(options) > 1 => FracLess(<<0, 1>>, NormWeights(options, table)[k])

NoChoice == [options |-> <<>>, weighted |-> FALSE, norm_weights |-> <<>>, pick |-> ""]

\* A list.remove that removes nothing.
Remove_Keeps(list, x) == list

\* list.remove(x): the list without the first occurrence of x.
Remove(list, x) ==
    LET i == CHOOSE j \in DOMAIN list : list[j] = x /\ \A k \in 1..(j - 1) : list[k] # x
    IN  SubSeq(list, 1, i - 1) \o SubSeq(list, i + 1, Len(list))

\* The roster after the draws made so far were removed, one by one.
RECURSIVE Remaining(_, _)
Remaining(list, drawn) ==
    IF drawn = <<>> THEN list ELSE Remaining(Remove(list, Head(drawn)), Tail(drawn))

\* Index of a name in a list.
IndexOf(list, x) == CHOOSE j \in DOMAIN list : list[j] = x

\* The draws the loop of randomize_story_elements can make: each draw picks
\* from what is left and removes it; the loop ends after n draws or when
\* nothing is left.
Draws(available, table, n) ==
    LET k == IF n < Len(available) THEN n ELSE Len(available)
    IN  {d \in [1..k -> Range(available)] :
            \A i \in 1..k :
                /\ d[i] \in Range(Remaining(available, SubSeq(d, 1, i - 1)))
                /\ CanPick(Remaining(available, SubSeq(d, 1, i - 1)), table,
                           IndexOf(Remaining(available, SubSeq(d, 1, i - 1)), d[i]))}

\* Preferences: an unset field is the empty string.
ChildNames == {"", "Wesley", "Zoe"}
FavoriteCharacters == {"", "Mom", "Elmo"}
FavoriteSettings == {"", "Zoo"}
PreferredLengths == {"", "medium"}

NoPreferences == [child_name |-> ""]

NoElements ==
    [universe |-> "", setting |-> "", theme |-> "", characters |-> <<>>,
     story_length |-> "", child_name |-> ""]

RandomizerInit ==
    /\ ppc = "start"
    /\ frequencies \in FreqTables
    /\ preferences = NoPreferences
    /\ last_choice = NoChoice
    /\ random_elements = NoElements
    /\ elements_before = NoElements
    /\ story_elements = NoElements
    /\ character_names = <<>>
    /\ scenario = [main_character |-> "", helper |-> "", sentence |-> <<>>]
    /\ target_words = 0

\* randomize_story_elements(preferences): universe, setting and theme are
\* drawn from one-entry lists here; num_characters = random.randint(2, 4).
Randomize(child_name, num_characters, length) ==
    /\ ppc = "start"
    /\ LET characters == IF child_name # "" THEN <<child_name>> ELSE <<>>
           n == IF child_name # "" THEN num_characters - 1 ELSE num_characters
           available_chars == SelectSeq(Roster, LAMBDA c : c \notin Range(characters))
       IN  \E drawn \in Draws(available_chars, frequencies, n) :
              /\ random_elements' =
                    [NoElements EXCEPT !.universe = "Bluey", !.setting = "Beach",
                                       !.theme = "Sharing",
                                       !.characters = characters \o drawn,
                                       !.story_length = length]
              /\ last_choice' =
                    IF drawn = <<>> THEN NoChoice
                    ELSE LET left == Remaining(available_chars,
                                               SubSeq(drawn, 1, Len(drawn) - 1))
                         IN  Choice(left, frequencies, IndexOf(left, drawn[Len(drawn)]))
    /\ preferences' = [NoPreferences EXCEPT !.child_name = child_name]
    /\ ppc' = "randomized"
    /\ UNCHANGED <<notPrompt, frequencies, elements_before, story_elements,
                   character_names, scenario, target_words>>

\* apply_preferences(random_elements, preferences): result is a shallow copy,
\* so result["characters"] is the list object of random_elements; each flag
\* says whether the random.random() test of a field passed.
ApplyPreferences(favorite_character, favorite_setting, preferred_story_length, use_character, use_setting, use_length) ==
    /\ ppc = "randomized"
    /\ LET append == /\ favorite_character # "" /\ use_character
                     /\ favorite_character \notin Range(random_elements.characters)
           characters == IF append THEN Append(random_elements.characters, favorite_character)
                         ELSE random_elements.characters
           result == [random_elements EXCEPT
                        !.characters = characters,
                        !.setting = IF favorite_setting # "" /\ use_setting
                                    THEN favorite_setting ELSE @,
                        !.story_length = IF preferred_story_length # "" /\ use_length
                                         THEN preferred_story_length ELSE @]
       IN  /\ elements_before' = random_elements
           /\ random_elements' = [random_elements EXCEPT !.characters = characters]
           /\ story_elements' = result
    /\ ppc' = "elements"
    /\ UNCHANGED <<notPrompt, frequencies, preferences, last_choice, character_names, scenario,
                   target_words>>

RandomizerNext ==
    \/ \E child_name \in ChildNames, num_characters \in 2..4, length \in LengthLabels :
          Randomize(child_name, num_characters, length)
    \/ \E favorite_character \in FavoriteCharacters, favorite_setting \in FavoriteSettings,
          preferred_story_length \in PreferredLengths,
          use_character \in BOOLEAN, use_setting \in BOOLEAN, use_length \in BOOLEAN :
          ApplyPreferences(favorite_character, favorite_setting, preferred_story_length,
                           use_character, use_setting, use_length)

\* ---- claims about the randomizer ----

C23_CharacterDraw ==
    ppc = "randomized" =>
        LET characters == random_elements.characters IN
        /\ Len(characters) \in 2..4
        /\ \A i, j \in DOMAIN characters : i # j => characters[i] # characters[j]
        /\ preferences.child_name # "" => characters[1] = preferences.child_name
        /\ \A i \in DOMAIN characters :
              characters[i] \in Range(Roster) \/ (i = 1 /\ preferences.child_name # "")

\* C24: apply_preferences leaves its argument random_elements as it was.
C24_ArgumentsUnchanged ==
    ppc = "elements" => random_elements = elements_before

\* C23 witness: a draw of four with the child's name first.
C23_Witness ==
    /\ ppc = "randomized"
    /\ Len(random_elements.characters) = 4
    /\ preferences.child_name = "Zoe"
    /\ random_elements.characters[1] = "Zoe"

----------------------------------------------------------------------------
\* create_story_prompt (llm/base.py) and get_specific_scenario
\* (core/story_seed_bank.py).

\* A key the story_elements dict does not have.
Missing == "<missing>"

\* Entries of a supplied list of dicts: a dict without "character_name", and
\* one whose character_name is not a str.
NoKey == "<no key>"
NotStr == "<not str>"

\* Length labels given to create_story_prompt: the configured ones, the ones
\* the device converter and the default preferences use, and one that names
\* no tier.
PassedLabels == LengthLabels \cup {"short", "medium", "Epic"}

\* The characters of a label.
Chars(label) ==
    CASE label = "Very Short (2-3 minutes)" ->
            <<"V", "e", "r", "y", " ", "S", "h", "o", "r", "t", " ", "(", "2", "-", "3", " ", "m", "i", "n", "u", "t", "e", "s", ")">>
      [] label = "Short (3-5 minutes)" ->
            <<"S", "h", "o", "r", "t", " ", "(", "3", "-", "5", " ", "m", "i", "n", "u", "t", "e", "s", ")">>
      [] label = "Medium (5-7 minutes)" ->
            <<"M", "e", "d", "i", "u", "m", " ", "(", "5", "-", "7", " ", "m", "i", "n", "u", "t", "e", "s", ")">>
      [] label = "Long (7-10 minutes)" ->
            <<"L", "o", "n", "g", " ", "(", "7", "-", "1", "0", " ", "m", "i", "n", "u", "t", "e", "s", ")">>
      [] label = "short" ->
            <<"s", "h", "o", "r", "t">>
      [] label = "medium" ->
            <<"m", "e", "d", "i", "u", "m">>
      [] label = "Epic" ->
            <<"E", "p", "i", "c">>

\* sub in s
Contains(sub, s) ==
    \E i \in 1..(Len(s) - Len(sub) + 1) : SubSeq(s, i, i + Len(sub) - 1) = sub

\* The if/elif chain on story_length.
TargetWords(label) ==
    IF Contains(<<"V", "e", "r", "y", " ", "S", "h", "o", "r", "t">>, Chars(label)) THEN 300
    ELSE IF Contains(<<"S", "h", "o", "r", "t">>, Chars(label)) THEN 600
    ELSE IF Contains(<<"M", "e", "d", "i", "u", "m">>, Chars(label)) THEN 900
    ELSE 1200

\* story_elements.get(key, default)
Get(elements, key, default) == IF elements[key] = Missing THEN default ELSE elements[key]

\* c.strip() on the pieces of a comma-separated string.
StripPiece(piece) == IF piece = " Wesley" THEN "Wesley" ELSE piece

\* Lines 108-119: the names taken from the supplied characters. A list of
\* dicts whose first entry has the key gives the str names of the keyed
\* entries; any other list gives str(c) of each entry; a string is split at
\* the commas and the pieces are stripped.
SuppliedNames(input) ==
    CASE input.items = <<>> -> <<>>
      [] input.form = "dicts" /\ input.items[1] # NoKey ->
            SelectSeq(input.items, LAMBDA c : c \notin {NoKey, NotStr})
      [] input.form = "dicts" ->
            [i \in DOMAIN input.items |-> "str(dict)"]
      [] input.form = "strings" -> input.items
      [] input.form = "csv" -> [i \in DOMAIN input.items |-> StripPiece(input.items[i])]

\* UNIVERSE_CHARACTERS, cut to two names of one universe.
UniverseChars(universe) == IF universe = "Bluey" THEN <<"Bluey", "Bingo">> ELSE <<>>

\* random.sample(universe_chars, k) with k = random.randint(1, min(len, 3)).
Samples(universe_chars) ==
    UNION {{s \in [1..k -> Range(universe_chars)] :
                \A i, j \in 1..k : i # j => s[i] # s[j]} :
           k \in 1..(IF Len(universe_chars) < 3 THEN Len(universe_chars) ELSE 3)}

\* Appending the child's name whether or not the list has it.
IncludeChild_Always(names, child_name) ==
    IF child_name # "" THEN Append(names, child_name) ELSE names

\* Lines 130-131.
IncludeChild(names, child_name) ==
    IF child_name # "" /\ child_name \notin Range(names) THEN Append(names, child_name)
    ELSE names

\* Lines 134-135.
Fallback(names) == IF names = <<>> THEN <<"The main character">> ELSE names

\* setting.lower()
LowerSetting(setting) ==
    CASE setting = "Beach" -> "beach"
      [] setting = "Playground" -> "playground"
      [] OTHER -> setting

\* The seed get_random_story_seed returns.
ScenarioSeed ==
    [problem |-> "loses a toy", activity |-> "playing", emotion |-> "sad",
     resolution |-> "looking together"]

\* Every character as a possible helper.
SupportingChars_All(characters, main_character) == characters

\* supporting_chars = [c for c in characters if c != main_character]
SupportingChars(characters, main_character) ==
    SelectSeq(characters, LAMBDA c : c # main_character)

\* The sentence of get_specific_scenario, piece by piece; helper is "" when
\* there is no supporting character.
Sentence(main_character, helper, setting, seed) ==
    <<main_character, " ", seed.problem, ". ",
      "They feel ", seed.emotion, " about this. ">>
    \o (IF helper # "" THEN <<helper, " helps them by ", seed.resolution, ". ">>
        ELSE <<"They solve this by ", seed.resolution, ". ">>)
    \o <<"This all happens while ", seed.activity, " at the ", LowerSetting(setting), ".">>

\* The supplied character inputs.
RECURSIVE SeqsUpTo(_, _)
SeqsUpTo(S, n) ==
    IF n = 0 THEN {<<>>}
    ELSE SeqsUpTo(S, n - 1) \cup {Append(s, x) : s \in SeqsUpTo(S, n - 1), x \in S}

CharacterInputs ==
    {[form |-> "strings", items |-> s] : s \in SeqsUpTo({"Wesley", "Mom"}, MaxSupplied)}
    \cup {[form |-> "dicts", items |-> s] :
             s \in SeqsUpTo({"Wesley", NoKey, NotStr}, MaxSupplied) \ {<<>>}}
    \cup {[form |-> "csv", items |-> s] :
             s \in SeqsUpTo({"Wesley", " Wesley", "Mom"}, MaxSupplied) \ {<<>>}}

ElementInputs ==
    [universe : {"Bluey", "Nowhere"}, setting : {"Beach", ""}, theme : {"Sharing"},
     characters : CharacterInputs, story_length : PassedLabels \cup {Missing},
     child_name : {Missing, "", "Wesley"}]

NoScenario == [main_character |-> "", helper |-> "", sentence |-> <<>>]

PromptInit ==
    /\ ppc = "elements"
    /\ story_elements \in ElementInputs
    /\ frequencies = <<>>
    /\ preferences = NoPreferences
    /\ last_choice = NoChoice
    /\ random_elements = NoElements
    /\ elements_before = NoElements
    /\ character_names = <<>>
    /\ scenario = NoScenario
    /\ target_words = 0

\* The prompt part at rest.
PromptIdle ==
    /\ ppc = "off"
    /\ story_elements = NoElements
    /\ frequencies = <<>>
    /\ preferences = NoPreferences
    /\ last_choice = NoChoice
    /\ random_elements = NoElements
    /\ elements_before = NoElements
    /\ character_names = <<>>
    /\ scenario = NoScenario
    /\ target_words = 0

\* create_story_prompt(story_elements): the character list, the scenario from
\* the seed bank (main character and helper drawn by random.choice) and the
\* target length.
CreateStoryPrompt ==
    /\ ppc = "elements"
    /\ LET universe == Get(story_elements, "universe", "Magical World")
           setting == Get(story_elements, "setting", "Enchanted Forest")
           story_length == Get(story_elements, "story_length", "Short (3-5 minutes)")
           child_name == Get(story_elements, "child_name", "Wesley")
           supplied == SuppliedNames(story_elements.characters)
       IN  \E sampled \in (IF supplied = <<>> /\ UniverseChars(universe) # <<>>
                           THEN Samples(UniverseChars(universe)) ELSE {supplied}) :
           LET names == Fallback(IncludeChild(sampled, child_name))
               place == IF setting = "" THEN "Playground" ELSE setting
           IN  \E main_character \in Range(names) :
               \E helper \in (IF SupportingChars(names, main_character) = <<>> THEN {""}
                              ELSE Range(SupportingChars(names, main_character))) :
                  /\ character_names' = names
                  /\ scenario' = [main_character |-> main_character, helper |-> helper,
                                  sentence |-> Sentence(main_character, helper, place,
                                                        ScenarioSeed)]
                  /\ target_words' = TargetWords(story_length)
    /\ ppc' = "prompted"
    /\ UNCHANGED <<notPrompt, story_elements, frequencies, preferences, last_choice,
                   random_elements, elements_before>>

PromptNext == CreateStoryPrompt

\* ---- claims about the prompt ----

\* How often a name occurs in a list.
Count(x, list) == Cardinality({i \in DOMAIN list : list[i] = x})

\* The child's name create_story_prompt uses.
ChildName == Get(story_elements, "child_name", "Wesley")

\* C21 as claimed: for every story_elements with a child name the resolved
\* character list is non-empty and contains the child's name exactly once.
C21_ChildExactlyOnce ==
    (ppc = "prompted" /\ ChildName # "") =>
        /\ character_names # <<>>
        /\ Count(ChildName, character_names) = 1

\* C21, amended: the resolved list is never empty; a non-empty child name is
\* in it, and exactly once unless the supplied characters already name the
\* child more than once (create_story_prompt adds the name only when it is
\* absent and removes nothing).
C21_ChildIncludedNotAdded ==
    ppc = "prompted" =>
        LET supplied == SuppliedNames(story_elements.characters) IN
        /\ character_names # <<>>
        /\ ChildName # "" =>
              /\ Count(ChildName, character_names) >= 1
              /\ Count(ChildName, supplied) <= 1 => Count(ChildName, character_names) = 1
              /\ Count(ChildName, supplied) > 1 =>
                    Count(ChildName, character_names) = Count(ChildName, supplied)

\* C21 witness: the child's name was supplied next to another name, and the
\* resolved list has it once.
C21_Witness ==
    /\ ppc = "prompted"
    /\ Count("Wesley", SuppliedNames(story_elements.characters)) = 1
    /\ Len(SuppliedNames(story_elements.characters)) = 2
    /\ ChildName = "Wesley"
    /\ Count("Wesley", character_names) = 1

\* The setting named at the end of the sentence, for the settings supplied.
ExpectedPlace == IF story_elements.setting = "Beach" THEN "beach" ELSE "playground"

\* C25: with two or more distinct names the sentence names a main character
\* and, in the 'helps them by' form, exactly one helper, two different members
\* of the list; with no other character it uses the 'They solve this by' form
\* and names no helper; it ends with the activity 'at the' lower-cased setting.
C25_ScenarioComposition ==
    ppc = "prompted" =>
        LET s == scenario.sentence
            n == Len(s)
        IN  /\ s[1] = scenario.main_character
            /\ scenario.main_character \in Range(character_names)
            /\ SubSeq(s, n - 3, n) = <<ScenarioSeed.activity, " at the ", ExpectedPlace, ".">>
            /\ IF Cardinality(Range(character_names)) >= 2
               THEN /\ scenario.helper \in Range(character_names)
                    /\ scenario.helper # scenario.main_character
                    /\ {i \in DOMAIN s : s[i] = " helps them by "} = {9}
                    /\ s[8] = scenario.helper
                    /\ \A i \in DOMAIN s : s[i] # "They solve this by "
               ELSE /\ scenario.helper = ""
                    /\ {i \in DOMAIN s : s[i] = "They solve this by "} = {8}
                    /\ \A i \in DOMAIN s : s[i] # " helps them by "

\* C25 witness: a scenario for two distinct names at the beach, with a helper.
C25_Witness ==
    /\ ppc = "prompted"
    /\ Cardinality(Range(character_names)) = 2
    /\ scenario.helper \in Range(character_names)
    /\ scenario.main_character = "Wesley"
    /\ story_elements.setting = "Beach"

\* The word count of the tier a label names.
NamedTier(label) ==
    CASE label = "Very Short (2-3 minutes)" -> 300
      [] label \in {"Short (3-5 minutes)", "short"} -> 600
      [] label \in {"Medium (5-7 minutes)", "medium"} -> 900
      [] OTHER -> 1200

\* C26: the story_length label is mapped to 300, 600, 900 or 1200 words by
\* substring match, 1200 when no tier matches, and every configured label and
\* every label the callers pass is mapped to the tier it names.
C26_LabelMapsToNamedTier ==
    ppc = "prompted" =>
        target_words = NamedTier(Get(story_elements, "story_length", "Short (3-5 minutes)"))

\* The configured labels are mapped to the tiers they name.
ConfiguredLabelsMapped ==
    (ppc = "prompted" /\ story_elements.story_length \in LengthLabels) =>
        target_words = NamedTier(story_elements.story_length)

----------------------------------------------------------------------------
\* The specifications. Each runs one part of the program and leaves the
\* variables of the other parts at their initial values.

----------------------------------------------------------------------------
\* The data of the text events emitted so far, in order.
TextEventData ==
    LET text_events == SelectSeq(events, LAMBDA ev : ev.event = "text")
    IN  [i \in DOMAIN text_events |-> text_events[i].data]

\* C27: the story_text of a persisted story is the transcript buffer, and in
\* the event-stream orchestrator the transcript buffer is the concatenation,
\* in order, of the deltas emitted as text events, one event per consumed
\* delta, whether or not audio is enabled and whatever was forwarded to
\* synthesis.
C27_TranscriptIsConcatenation ==
    /\ \A i \in DOMAIN stories : stories[i].story_text = full_text
    /\ endpoint = "sse" =>
          /\ Len(TextEventData) = n_deltas
          /\ full_text = Concat(TextEventData)

C27_Witness ==
    /\ endpoint = "sse"
    /\ ~generate_audio
    /\ Len(stories) = 1
    /\ n_deltas = MaxDeltas
    /\ stories[1].story_text = Concat(TextEventData)
    /\ \E i, j \in DOMAIN TextEventData : TextEventData[i] # TextEventData[j]

StreamIdle ==
    /\ endpoint = "sse" /\ generate_audio = FALSE /\ pc = "off"
    /\ full_text = <<>> /\ chunk_buffer = <<>> /\ text_to_process = <<>>
    /\ full_audio_data = <<>> /\ events = <<>> /\ forwarded = <<>>
    /\ tts_open = {} /\ cur_stream = 0 /\ n_chunks = 0 /\ n_emitted = 0
    /\ n_deltas = 0 /\ llm_state = "open" /\ stories = <<>>
    /\ player_process = "none" /\ player_stdin = "none"
    /\ cancelled = FALSE /\ reraised = FALSE /\ failed_streams = {}

GenIdle ==
    /\ LLM_PROVIDER = Unset
    /\ llm_provider = "OpenAIProvider" /\ gpc = "idle" /\ attempt_log = <<>>
    /\ response = "none" /\ db_stories = <<>> /\ n_gen_requests = 0
    /\ audio_result = "none" /\ response_audio_path = "null"
    /\ TTS_PROVIDER = Unset /\ TTS_VOICE_ID = Unset
    /\ startup_environ = [LLM_PROVIDER |-> Unset, TTS_PROVIDER |-> Unset,
                          TTS_VOICE_ID |-> Unset]
    /\ story_request = NoFields /\ stored_preferences = NoStored /\ audio_used = NoAudio

TextIdle ==
    /\ text_provider = "OpenAIProvider" /\ text_gen = "created" /\ yielded = <<>>
    /\ received = <<>> /\ backend_failed = FALSE /\ logged_error = FALSE
    /\ n_backend_chunks = 0

\* The parts a specification does not run.
IdleButStream == MonitorInit /\ GenIdle /\ TextIdle /\ SeedInit /\ TtsInit /\ PromptIdle
IdleButMonitor == StreamIdle /\ GenIdle /\ TextIdle /\ SeedInit /\ TtsInit /\ PromptIdle
IdleButGen == StreamIdle /\ MonitorInit /\ TextIdle /\ SeedInit /\ TtsInit /\ PromptIdle
IdleButText == StreamIdle /\ MonitorInit /\ GenIdle /\ SeedInit /\ TtsInit /\ PromptIdle
IdleButSeed == StreamIdle /\ MonitorInit /\ GenIdle /\ TextIdle /\ TtsInit /\ PromptIdle
IdleButTts == StreamIdle /\ MonitorInit /\ GenIdle /\ TextIdle /\ SeedInit /\ PromptIdle
IdleButPrompt == StreamIdle /\ MonitorInit /\ GenIdle /\ TextIdle /\ SeedInit /\ TtsInit

\* One streaming request.
Init == StreamInit /\ IdleButStream
Next == StreamNext
Spec == Init /\ [][Next]_vars

\* The device-triggered flow.
MonitorSpecInit == MonitorInit /\ IdleButMonitor
MonitorSpecNext == MonitorNext
MonitorSpec == MonitorSpecInit /\ [][MonitorSpecNext]_vars

\* The blocking /generate path.
GenSpecInit == GenInit /\ IdleButGen
GenSpecNext == GenNext
GenSpec == GenSpecInit /\ [][GenSpecNext]_vars

\* One text stream of a generation provider.
TextSpecInit == TextInit /\ IdleButText
TextSpecNext == TextNext
TextSpec == TextSpecInit /\ [][TextSpecNext]_vars

\* StorySeedBank instances on one cache file.
SeedSpecInit == SeedInit /\ IdleButSeed
SeedSpecNext == SeedNext
SeedSpec == SeedSpecInit /\ [][SeedSpecNext]_vars

\* The synthesis providers: the factory, blocking calls and synthesis streams.
TtsSpecInit == TtsInit /\ IdleButTts
TtsSpecNext == TtsNext
TtsSpec == TtsSpecInit /\ [][TtsSpecNext]_vars

\* The element randomizer.
RandomizerSpecInit == RandomizerInit /\ IdleButPrompt
RandomizerSpecNext == RandomizerNext
RandomizerSpec == RandomizerSpecInit /\ [][RandomizerSpecNext]_vars

\* Story elements: the randomizer, the preferences and the prompt.
PromptSpecInit == PromptInit /\ IdleButPrompt
PromptSpecNext == PromptNext
PromptSpec == PromptSpecInit /\ [][PromptSpecNext]_vars
====
